---- MODULE Spec2Model ----
(***************************************************************************)
(* A model of lib-events: the SqsQueueClient poll engine and sendMessages  *)
(* (queue/sqsQueueClient.ts), the createConsumer bounded poll and the      *)
(* createPublisher dispatch (index.ts), the attribute codec (base64.ts),   *)
(* the poll of src/index.js, the PubSubClient (gcp/pubsub.ts), and the SQS *)
(* queue they talk to.                                                     *)
(***************************************************************************)
EXTENDS Integers, Sequences, FiniteSets, TLC

(***************************************************************************)
(* Bounds of the model.                                                     *)
(***************************************************************************)
\* Number of distinct messages that are ever put on the queue.
MaxMsgs == 2

\* Largest maxIterations a caller passes to createConsumer.poll.
MaxIterations == 2

\* Number of messages on the queue in the fair runs of the unbounded poll loop.
MaxLoopMsgs == 1

\* Calls of dispatch in one behaviour of the publisher.
MaxDispatches == 2

\* Receive calls after which the poll of src/index.js gets no further batch.
MaxLegacyReceives == 4

\* Largest number of elements of an array, and of members of an object, passed to the
\* attribute codec.
MaxItems == 2

\* Messages the Pub/Sub subscription delivers.
MaxPubSubMsgs == 2

\* Largest shutdownTimeout an application passes to PubSubClient.initialize.
MaxShutdownTimeout == 2

MsgIds == 1..MaxMsgs

(***************************************************************************)
(* Program constants.                                                       *)
(***************************************************************************)
DEFAULT_MAX_NUMBER_OF_MESSAGES == 10

DEFAULT_SHUTDOWN_TIMEOUT == 30

Undefined == "undefined"

(***************************************************************************)
(* The attribute codec (base64.ts): encodeJson is base64 of the UTF-8 bytes *)
(* of JSON.stringify, decodeJson is JSON.parse of the UTF-8 text of the     *)
(* base64 decoding.  A text is a sequence of characters.                    *)
(***************************************************************************)
\* A JSON value: null, true, false, an integer, a string, an array or an object (its
\* keys in keys, the members' values in items, in insertion order).
JsonValue(kind, num, chars, keys, items) ==
  [kind |-> kind, num |-> num, chars |-> chars, keys |-> keys, items |-> items]

JNull == JsonValue("null", 0, <<>>, <<>>, <<>>)

JBool(b) == JsonValue(IF b THEN "true" ELSE "false", 0, <<>>, <<>>, <<>>)

JNumber(k) == JsonValue("number", k, <<>>, <<>>, <<>>)

JString(chars) == JsonValue("string", 0, chars, <<>>, <<>>)

JArray(items) == JsonValue("array", 0, <<>>, <<>>, items)

JObject(keys, items) == JsonValue("object", 0, <<>>, keys, items)

\* What JSON.parse or a decoder returns: a value, or a throw.
Parsed(value, next) == [ok |-> TRUE, value |-> value, next |-> next]

ParseError == [ok |-> FALSE, value |-> JNull, next |-> 0]

DigitChars == <<"0", "1", "2", "3", "4", "5", "6", "7", "8", "9">>

DigitOf(c) == (CHOOSE i \in 1..10 : DigitChars[i] = c) - 1

IsDigit(c) == \E i \in 1..10 : DigitChars[i] = c

\* The decimal text of a natural number.
RECURSIVE Digits(_)
Digits(k) ==
  IF k < 10 THEN <<DigitChars[k + 1]>>
  ELSE Digits(k \div 10) \o <<DigitChars[(k % 10) + 1]>>

\* JSON.stringify escapes the quote and the backslash inside a string.
EscapeCharUnescaped(c) == <<c>>

EscapeChar(c) == IF c \in {"\"", "\\"} THEN <<"\\", c>> ELSE <<c>>

RECURSIVE Escape(_)
Escape(chars) ==
  IF chars = <<>> THEN <<>> ELSE EscapeChar(Head(chars)) \o Escape(Tail(chars))

Quoted(chars) == <<"\"">> \o Escape(chars) \o <<"\"">>

\* JSON.stringify(value)
RECURSIVE stringify(_)
RECURSIVE StringifyItems(_, _, _)
StringifyItems(keys, items, i) ==
  IF i > Len(items) THEN <<>>
  ELSE (IF i > 1 THEN <<",">> ELSE <<>>)
         \o (IF keys = <<>> THEN <<>> ELSE Quoted(keys[i]) \o <<":">>)
         \o stringify(items[i])
         \o StringifyItems(keys, items, i + 1)

stringify(value) ==
  CASE value.kind = "null" -> <<"n", "u", "l", "l">>
    [] value.kind = "true" -> <<"t", "r", "u", "e">>
    [] value.kind = "false" -> <<"f", "a", "l", "s", "e">>
    [] value.kind = "number" ->
         IF value.num < 0 THEN <<"-">> \o Digits(0 - value.num) ELSE Digits(value.num)
    [] value.kind = "string" -> Quoted(value.chars)
    [] value.kind = "array" -> <<"[">> \o StringifyItems(<<>>, value.items, 1) \o <<"]">>
    [] value.kind = "object" ->
         <<"{">> \o StringifyItems(value.keys, value.items, 1) \o <<"}">>

\* JSON.parse(text), by recursive descent over the characters.
RECURSIVE ParseValue(_, _)
RECURSIVE ReadString(_, _, _)
RECURSIVE ReadNumber(_, _, _)
RECURSIVE ReadItems(_, _, _)
RECURSIVE ReadMembers(_, _, _, _)

ReadString(s, i, acc) ==
  IF i > Len(s) THEN ParseError
  ELSE IF s[i] = "\"" THEN Parsed(JString(acc), i + 1)
  ELSE IF s[i] = "\\"
  THEN IF i + 1 <= Len(s) /\ s[i + 1] \in {"\"", "\\"}
       THEN ReadString(s, i + 2, Append(acc, s[i + 1]))
       ELSE ParseError
  ELSE ReadString(s, i + 1, Append(acc, s[i]))

ReadNumber(s, i, acc) ==
  IF i <= Len(s) /\ IsDigit(s[i]) THEN ReadNumber(s, i + 1, 10 * acc + DigitOf(s[i]))
  ELSE Parsed(JNumber(acc), i)

ReadLiteral(s, i, chars, value) ==
  IF i + Len(chars) - 1 <= Len(s) /\ SubSeq(s, i, i + Len(chars) - 1) = chars
  THEN Parsed(value, i + Len(chars))
  ELSE ParseError

ReadItems(s, i, acc) ==
  LET item == ParseValue(s, i) IN
  IF ~item.ok \/ item.next > Len(s) THEN ParseError
  ELSE IF s[item.next] = "," THEN ReadItems(s, item.next + 1, Append(acc, item.value))
  ELSE IF s[item.next] = "]" THEN Parsed(JArray(Append(acc, item.value)), item.next + 1)
  ELSE ParseError

ReadMembers(s, i, keys, items) ==
  IF i > Len(s) \/ s[i] # "\"" THEN ParseError
  ELSE LET key == ReadString(s, i + 1, <<>>) IN
       IF ~key.ok \/ key.next > Len(s) \/ s[key.next] # ":" THEN ParseError
       ELSE LET item == ParseValue(s, key.next + 1) IN
            IF ~item.ok \/ item.next > Len(s) THEN ParseError
            ELSE IF s[item.next] = ","
            THEN ReadMembers(s, item.next + 1, Append(keys, key.value.chars),
                             Append(items, item.value))
            ELSE IF s[item.next] = "}"
            THEN Parsed(JObject(Append(keys, key.value.chars), Append(items, item.value)),
                        item.next + 1)
            ELSE ParseError

ParseValue(s, i) ==
  IF i > Len(s) THEN ParseError
  ELSE CASE s[i] = "n" -> ReadLiteral(s, i, <<"n", "u", "l", "l">>, JNull)
         [] s[i] = "t" -> ReadLiteral(s, i, <<"t", "r", "u", "e">>, JBool(TRUE))
         [] s[i] = "f" -> ReadLiteral(s, i, <<"f", "a", "l", "s", "e">>, JBool(FALSE))
         [] s[i] = "\"" -> ReadString(s, i + 1, <<>>)
         [] s[i] = "-" ->
              IF i + 1 <= Len(s) /\ IsDigit(s[i + 1])
              THEN LET number == ReadNumber(s, i + 1, 0)
                   IN Parsed(JNumber(0 - number.value.num), number.next)
              ELSE ParseError
         [] IsDigit(s[i]) -> ReadNumber(s, i, 0)
         [] s[i] = "[" ->
              IF i + 1 <= Len(s) /\ s[i + 1] = "]" THEN Parsed(JArray(<<>>), i + 2)
              ELSE ReadItems(s, i + 1, <<>>)
         [] s[i] = "{" ->
              IF i + 1 <= Len(s) /\ s[i + 1] = "}" THEN Parsed(JObject(<<>>, <<>>), i + 2)
              ELSE ReadMembers(s, i + 1, <<>>, <<>>)
         [] OTHER -> ParseError

parse(text) ==
  LET top == ParseValue(text, 1)
  IN IF top.ok /\ top.next = Len(text) + 1 THEN top ELSE ParseError

\* The characters of the model and their UTF-8 bytes; "U+00E9" is a two-byte character.
AsciiChars ==
  <<"\"", ",", "-", "0", "1", "2", "3", "4", "5", "6", "7", "8", "9", ":", "[", "\\",
    "]", "a", "e", "f", "k", "l", "n", "r", "s", "t", "u", "{", "}">>

AsciiCodes ==
  <<34, 44, 45, 48, 49, 50, 51, 52, 53, 54, 55, 56, 57, 58, 91, 92,
    93, 97, 101, 102, 107, 108, 110, 114, 115, 116, 117, 123, 125>>

Utf8Of(c) ==
  IF c = "U+00E9" THEN <<195, 169>>
  ELSE <<AsciiCodes[CHOOSE i \in 1..Len(AsciiChars) : AsciiChars[i] = c]>>

\* Buffer.from(text): the UTF-8 bytes of a text.
RECURSIVE utf8Encode(_)
utf8Encode(chars) ==
  IF chars = <<>> THEN <<>> ELSE Utf8Of(Head(chars)) \o utf8Encode(Tail(chars))

CharOfByte(b) ==
  IF \E i \in 1..Len(AsciiCodes) : AsciiCodes[i] = b
  THEN AsciiChars[CHOOSE i \in 1..Len(AsciiCodes) : AsciiCodes[i] = b]
  ELSE "U+FFFD"

\* buff.toString("utf-8")
RECURSIVE utf8Decode(_)
utf8Decode(bytes) ==
  IF bytes = <<>> THEN <<>>
  ELSE IF Len(bytes) >= 2 /\ bytes[1] = 195 /\ bytes[2] = 169
  THEN <<"U+00E9">> \o utf8Decode(SubSeq(bytes, 3, Len(bytes)))
  ELSE <<CharOfByte(Head(bytes))>> \o utf8Decode(Tail(bytes))

Base64Alphabet ==
  <<"A", "B", "C", "D", "E", "F", "G", "H", "I", "J", "K", "L", "M", "N", "O", "P",
    "Q", "R", "S", "T", "U", "V", "W", "X", "Y", "Z", "a", "b", "c", "d", "e", "f",
    "g", "h", "i", "j", "k", "l", "m", "n", "o", "p", "q", "r", "s", "t", "u", "v",
    "w", "x", "y", "z", "0", "1", "2", "3", "4", "5", "6", "7", "8", "9", "+", "/">>

Sextet(c) == (CHOOSE i \in 1..64 : Base64Alphabet[i] = c) - 1

\* buff.toString("base64")
RECURSIVE Base64Encode(_)
Base64Encode(bytes) ==
  IF bytes = <<>> THEN <<>>
  ELSE IF Len(bytes) = 1
  THEN <<Base64Alphabet[(bytes[1] \div 4) + 1], Base64Alphabet[(bytes[1] % 4) * 16 + 1],
         "=", "=">>
  ELSE IF Len(bytes) = 2
  THEN <<Base64Alphabet[(bytes[1] \div 4) + 1],
         Base64Alphabet[(bytes[1] % 4) * 16 + (bytes[2] \div 16) + 1],
         Base64Alphabet[(bytes[2] % 16) * 4 + 1], "=">>
  ELSE <<Base64Alphabet[(bytes[1] \div 4) + 1],
         Base64Alphabet[(bytes[1] % 4) * 16 + (bytes[2] \div 16) + 1],
         Base64Alphabet[(bytes[2] % 16) * 4 + (bytes[3] \div 64) + 1],
         Base64Alphabet[(bytes[3] % 64) + 1]>>
         \o Base64Encode(SubSeq(bytes, 4, Len(bytes)))

\* Buffer.from(text, "base64"); decoding stops at the padding.
RECURSIVE Base64Decode(_)
Base64Decode(chars) ==
  IF Len(chars) < 4 THEN <<>>
  ELSE LET s1 == Sextet(chars[1])
           s2 == Sextet(chars[2])
       IN IF chars[3] = "=" THEN <<s1 * 4 + (s2 \div 16)>>
          ELSE IF chars[4] = "="
          THEN <<s1 * 4 + (s2 \div 16), (s2 % 16) * 16 + (Sextet(chars[3]) \div 4)>>
          ELSE <<s1 * 4 + (s2 \div 16), (s2 % 16) * 16 + (Sextet(chars[3]) \div 4),
                 (Sextet(chars[3]) % 4) * 64 + Sextet(chars[4])>>
                 \o Base64Decode(SubSeq(chars, 5, Len(chars)))

\* encodeJson(json)
encodeJson(json) == Base64Encode(utf8Encode(stringify(json)))

\* decodeJson(base64)
decodeJson(base64) == parse(utf8Decode(Base64Decode(base64)))

\* A text as one string.
RECURSIVE Text(_)
Text(chars) == IF chars = <<>> THEN "" ELSE Head(chars) \o Text(Tail(chars))

\* The JSON-representable values of the model: scalars, arrays and objects of up to
\* MaxItems scalars, and an array or an object holding one of those.
JsonScalars ==
  {JNull, JBool(TRUE), JBool(FALSE), JNumber(0), JNumber(7), JNumber(0 - 12),
   JString(<<>>), JString(<<"a">>), JString(<<"a", "\"", "\\">>), JString(<<"U+00E9">>)}

KeyNames == <<(<<"k">>), (<<"a">>), (<<"e", "k">>), (<<"U+00E9">>)>>

TuplesOf(S) == UNION {[1..k -> S] : k \in 0..MaxItems}

JsonContainers ==
  {JArray(items) : items \in TuplesOf(JsonScalars)}
    \cup {JObject(SubSeq(KeyNames, 1, Len(items)), items) : items \in TuplesOf(JsonScalars)}

JsonInputs ==
  JsonScalars \cup JsonContainers
    \cup {JArray(<<value>>) : value \in JsonContainers}
    \cup {JObject(<<(<<"k">>)>>, <<value>>) : value \in JsonContainers}

(***************************************************************************)
(* Wire values.  A JSON text is modelled by what JSON.parse makes of it:    *)
(* `parses` says whether JSON.parse returns, the other fields are the       *)
(* members of the parsed object that the library reads.                     *)
(***************************************************************************)
EmptyAttrs == [a \in {} |-> Undefined]

\* Native SQS message attribute values ({DataType, StringValue, BinaryValue}).
StringAttr(s) == [DataType |-> "String", StringValue |-> s, BinaryValue |-> Undefined]
NumberAttr(s) == [DataType |-> "Number", StringValue |-> s, BinaryValue |-> Undefined]
BinaryAttr(b) == [DataType |-> "Binary", StringValue |-> Undefined, BinaryValue |-> b]
OtherAttr(s) == [DataType |-> "String.Array", StringValue |-> s, BinaryValue |-> Undefined]

\* Attribute values nested in an SNS notification body ({Type, Value}).
SnsAttr(type, v) == [Type |-> type, Value |-> v]

\* JSON texts of inner documents (the SNS `Message` member, a Binary attribute).
InnerTexts == {"{\"payload\":\"test\"}", "{}", "not json"}

\* JSON.parse of an inner text: the parsed object's payload member.
InnerParse(text) ==
  IF text = "{\"payload\":\"test\"}" THEN [threw |-> FALSE, payload |-> "test"]
  ELSE IF text = "{}" \/ text = Undefined THEN [threw |-> FALSE, payload |-> Undefined]
  ELSE [threw |-> TRUE, payload |-> Undefined]

\* A message body: the text of an SQS message's Body.  empty says that the text is
\* the empty string, Records is the first element of the body's Records array,
\* hasAttributes whether it has a MessageAttributes member.
PlainBody(payload) ==
  [empty |-> FALSE, parses |-> TRUE, Records |-> Undefined, Type |-> Undefined, Message |-> Undefined,
   hasAttributes |-> FALSE, MessageAttributes |-> EmptyAttrs, payload |-> payload]
GarbageBody ==
  [empty |-> FALSE, parses |-> FALSE, Records |-> Undefined, Type |-> Undefined, Message |-> Undefined,
   hasAttributes |-> FALSE, MessageAttributes |-> EmptyAttrs, payload |-> Undefined]
NotificationBody(attrs, inner) ==
  [empty |-> FALSE, parses |-> TRUE, Records |-> Undefined, Type |-> "Notification", Message |-> inner,
   hasAttributes |-> TRUE, MessageAttributes |-> attrs, payload |-> Undefined]
StorageEventBody(record) ==
  [empty |-> FALSE, parses |-> TRUE, Records |-> record, Type |-> Undefined, Message |-> Undefined,
   hasAttributes |-> FALSE, MessageAttributes |-> EmptyAttrs, payload |-> Undefined]

EmptyBody == [GarbageBody EXCEPT !.empty = TRUE]

\* A raw SQS message as the transport returns it (ReceiptHandle is added on receive).
RawMessage(attrs, body) == [MessageAttributes |-> attrs, Body |-> body]

(***************************************************************************)
(* SqsQueueClient: decoding a raw message (sqsQueueClient.ts).              *)
(***************************************************************************)
\* Number(text) on the numeric texts of the model, in canonical decimal form.
NumberOf(s) ==
  IF s \in {"1", "01", "1.0"} THEN "1"
  ELSE IF s \in {"0", ""} THEN "0"
  ELSE "NaN"

\* A decoded attribute value: its JavaScript type and its value.
Value(type, v) == [t |-> type, v |-> v]

\* mapSqsAttributeToRecord: the outcome for one native attribute.
mapSqsAttributeToRecord(value) ==
  IF value.DataType = "String"
  THEN [threw |-> FALSE,
        v |-> Value("string", IF value.StringValue = Undefined THEN "" ELSE value.StringValue)]
  ELSE IF value.DataType = "Number"
  THEN [threw |-> FALSE, v |-> Value("number", NumberOf(value.StringValue))]
  ELSE IF value.DataType = "Binary"
  THEN [threw |-> InnerParse(value.BinaryValue).threw,
        v |-> Value("object", InnerParse(value.BinaryValue).payload)]
  ELSE [threw |-> TRUE, v |-> Value("undefined", Undefined)]

\* mapSnsAttributeToRecord: the outcome for one attribute nested in a notification.
mapSnsAttributeToRecordDecodingBinary(value) ==
  IF value.Type = "String" THEN [threw |-> FALSE, v |-> Value("string", value.Value)]
  ELSE IF value.Type = "Number"
  THEN [threw |-> FALSE, v |-> Value("number", NumberOf(value.Value))]
  ELSE [threw |-> InnerParse(value.Value).threw,
        v |-> Value("object", InnerParse(value.Value).payload)]

mapSnsAttributeToRecord(value) ==
  IF value.Type = "String" THEN [threw |-> FALSE, v |-> Value("string", value.Value)]
  ELSE IF value.Type = "Number"
  THEN [threw |-> FALSE, v |-> Value("number", NumberOf(value.Value))]
  ELSE IF value.Type = "Binary" THEN [threw |-> FALSE, v |-> Value("object", Undefined)]
  ELSE [threw |-> TRUE, v |-> Value("undefined", Undefined)]

\* The internal Message {type, attributes, body}.
InternalMessage(type, attributes, payload) ==
  [type |-> type, attributes |-> attributes, body |-> [payload |-> payload]]

NoMessage == InternalMessage(Undefined, EmptyAttrs, Undefined)

Threw == [threw |-> TRUE, msg |-> NoMessage]

Returned(msg) == [threw |-> FALSE, msg |-> msg]

\* mapSqsMessageToInternalMessage: Threw when any step of the decoding throws.
mapSqsMessageToInternalMessage(message) ==
  LET body == message.Body
      native == message.MessageAttributes
  IN
  IF ~body.parses THEN Threw
  ELSE IF "Type" \notin DOMAIN native /\ body.Type = "Notification"
  THEN LET sns == body.MessageAttributes IN
       IF \E k \in DOMAIN sns : mapSnsAttributeToRecord(sns[k]).threw THEN Threw
       ELSE IF InnerParse(body.Message).threw THEN Threw
       ELSE Returned(InternalMessage(
              IF "type" \in DOMAIN sns THEN sns["type"].Value ELSE "UNKNOWN",
              [k \in DOMAIN sns |-> mapSnsAttributeToRecord(sns[k]).v],
              InnerParse(body.Message).payload))
  ELSE IF \E k \in DOMAIN native : mapSqsAttributeToRecord(native[k]).threw THEN Threw
  ELSE Returned(InternalMessage(
         IF "type" \in DOMAIN native /\ native["type"].StringValue # Undefined
         THEN native["type"].StringValue ELSE "UNKNOWN",
         [k \in DOMAIN native |-> mapSqsAttributeToRecord(native[k]).v],
         body.payload))

(***************************************************************************)
(* The raw messages that producers put on the queue in this model.          *)
(***************************************************************************)
DirectAttrs(type) == [k \in {"type", "foo"} |->
                        IF k = "type" THEN StringAttr(type) ELSE StringAttr("bar")]

RelayedAttrs(type) == [k \in {"type", "foo"} |->
                         IF k = "type" THEN SnsAttr("String", type) ELSE SnsAttr("String", "bar")]

\* Notifications a topic relays to the queue: the foo attribute is a string, a number,
\* a binary value, or of a type the library does not know.
RelayedRawMessages ==
  { RawMessage(EmptyAttrs,
               NotificationBody([k \in {"type", "foo"} |->
                                   IF k = "type" THEN SnsAttr("String", "A") ELSE foo],
                                "{\"payload\":\"test\"}")) :
      foo \in {SnsAttr("String", "bar"), SnsAttr("Number", "01"),
               SnsAttr("Binary", "{\"payload\":\"test\"}"),
               SnsAttr("String.Array", "[\"bar\"]")} }

SqsRawMessages ==
  { RawMessage(DirectAttrs("A"), PlainBody("test")),         \* handled by the A handler
    RawMessage(DirectAttrs("B"), PlainBody("test")),         \* handled by the B handler
    RawMessage(DirectAttrs("A"), PlainBody(Undefined)),      \* fails validateMessage
    RawMessage(DirectAttrs("A"), GarbageBody) }              \* Body is not JSON

\* What reaches a createConsumer queue: relayed notifications, a storage event, a
\* body that is not JSON.
ConsumerAttrs == [k \in {"type", "source", "checksum"} |->
                    IF k = "type" THEN SnsAttr("String", "ORDER_PENDING")
                    ELSE IF k = "source" THEN SnsAttr("String", "svc")
                    ELSE SnsAttr("Number", "1")]

ConsumerRawMessages ==
  { RawMessage(EmptyAttrs, NotificationBody(ConsumerAttrs, "order 1 is pending")),
    RawMessage(EmptyAttrs, StorageEventBody("s3:ObjectCreated")),
    RawMessage(EmptyAttrs, GarbageBody) }

(***************************************************************************)
(* createConsumer: decoding a raw message (index.ts).                       *)
(***************************************************************************)
\* The Message handed to processMessage; record is the storage-event record when the
\* body is a storage event.
ConsumerMessage(type, source, checksum, message, record) ==
  [type |-> type, source |-> source, checksum |-> checksum, message |-> message,
   record |-> record]

\* mapAttributes: reading .Value of a missing type, source or checksum attribute
\* throws, and so does decodeJson of a json attribute that is no encoding; id, uri,
\* json, transactionId and groupId are set when the attribute is there.
mapAttributesMandatoryOnly(data) ==
  LET attrs == data.MessageAttributes IN
  IF ~({"type", "source", "checksum"} \subseteq DOMAIN attrs) THEN Threw
  ELSE Returned(ConsumerMessage(attrs["type"].Value, attrs["source"].Value,
                                NumberOf(attrs["checksum"].Value), data.Message, Undefined))

mapAttributes(data) ==
  LET attrs == data.MessageAttributes IN
  IF ~({"type", "source", "checksum"} \subseteq DOMAIN attrs) THEN Threw
  ELSE IF "json" \in DOMAIN attrs /\ ~decodeJson(attrs["json"].Value).ok THEN Threw
  ELSE Returned(
         ConsumerMessage(attrs["type"].Value, attrs["source"].Value,
                         NumberOf(attrs["checksum"].Value), data.Message, Undefined)
           @@ [k \in {"id", "uri", "transactionId", "groupId"} \cap DOMAIN attrs |->
                 attrs[k].Value]
           @@ [k \in {"json"} \cap DOMAIN attrs |-> decodeJson(attrs[k].Value).value])

\* The message getAttributes returns for a body it does not recognise.
Placeholder == ConsumerMessage("", "", "0", "", Undefined)

\* getAttributes(message.Body)
getAttributes(body) ==
  IF body.empty THEN Returned(Placeholder)
  ELSE IF ~body.parses THEN Threw
  ELSE IF body.Records # Undefined
  THEN Returned(ConsumerMessage(Undefined, Undefined, Undefined, Undefined, body.Records))
  ELSE IF body.hasAttributes THEN mapAttributes(body)
  ELSE Returned(Placeholder)

\* The bodies getAttributes is called with in this model: the empty text, a text
\* that is not JSON, an object of no known shape, storage events, and notifications
\* with every choice of attributes, the json attribute being the encoding of an
\* object or base64 of a text that is not JSON.
EncodedObject == JObject(<<(<<"k">>)>>, <<JArray(<<JString(<<"a">>), JNumber(7)>>)>>)

AttributeNames == {"type", "source", "checksum", "id", "uri", "json", "transactionId", "groupId"}

EnvelopeAttrs(encoded) ==
  [name \in AttributeNames |->
     CASE name = "type" -> SnsAttr("String", "ORDER_PENDING")
       [] name = "source" -> SnsAttr("String", "svc")
       [] name = "checksum" -> SnsAttr("Number", "1")
       [] name = "id" -> SnsAttr("String", "7")
       [] name = "uri" -> SnsAttr("String", "https://api/orders/7")
       [] name = "json" -> SnsAttr("String", encoded)
       [] name = "transactionId" -> SnsAttr("String", "t1")
       [] name = "groupId" -> SnsAttr("String", "g1")]

Restrict(f, names) == [name \in names |-> f[name]]

ConsumerBodies ==
  {EmptyBody, GarbageBody, PlainBody("test"), StorageEventBody("s3:ObjectCreated"),
   [StorageEventBody("s3:ObjectCreated") EXCEPT
      !.hasAttributes = TRUE, !.MessageAttributes = ConsumerAttrs]}
    \cup {NotificationBody(Restrict(EnvelopeAttrs(encoded), names), "order 1 is pending") :
            names \in SUBSET AttributeNames,
            encoded \in {encodeJson(EncodedObject), Base64Encode(utf8Encode(<<"a">>))}}

(***************************************************************************)
(* createConsumer of src/src/index.ts: decoding a raw message.              *)
(***************************************************************************)
\* mapAttributes of src/src/index.ts: type, source, checksum and message are read from
\* attributes that must be there; groupId is read when the id attribute is there.
tsMapAttributes(data) ==
  LET attrs == data.MessageAttributes IN
  IF ~({"type", "source", "checksum", "message"} \subseteq DOMAIN attrs) THEN Threw
  ELSE IF "json" \in DOMAIN attrs /\ ~decodeJson(attrs["json"].Value).ok THEN Threw
  ELSE IF "id" \in DOMAIN attrs /\ "groupId" \notin DOMAIN attrs THEN Threw
  ELSE Returned(
         ConsumerMessage(attrs["type"].Value, attrs["source"].Value,
                         NumberOf(attrs["checksum"].Value), attrs["message"].Value,
                         Undefined)
           @@ [k \in {"id", "uri", "transactionId"} \cap DOMAIN attrs |-> attrs[k].Value]
           @@ [k \in {"json"} \cap DOMAIN attrs |-> decodeJson(attrs[k].Value).value]
           @@ [k \in (IF "id" \in DOMAIN attrs THEN {"groupId"} ELSE {}) |-> attrs[k].Value])

\* getAttributes of src/src/index.ts; {} is a message with no member.
tsGetAttributes(body) ==
  IF body.empty THEN Returned(EmptyAttrs)
  ELSE IF ~body.parses THEN Threw
  ELSE IF body.Records # Undefined
  THEN Returned(ConsumerMessage(Undefined, Undefined, Undefined, Undefined, body.Records))
  ELSE IF body.hasAttributes THEN tsMapAttributes(body)
  ELSE Returned(EmptyAttrs)

\* The envelopes mapAttributes of src/src/index.ts is called with: every choice of
\* attributes, the message attribute among them.
TsAttributeNames == AttributeNames \cup {"message"}

TsEnvelopeAttrs ==
  [name \in TsAttributeNames |->
     IF name = "message" THEN SnsAttr("String", "order 1 is pending")
     ELSE EnvelopeAttrs(encodeJson(EncodedObject))[name]]

TsEnvelopes ==
  {NotificationBody(Restrict(TsEnvelopeAttrs, names), "order 1 is pending") :
     names \in SUBSET TsAttributeNames}

(***************************************************************************)
(* Message handlers registered by the application (queueClient.ts).         *)
(***************************************************************************)
Handlers == {"h1", "h2", "h3"}

NoHandler == "none"

\* MessageHandler.type
HandlerType(h) == IF h = "h3" THEN "B" ELSE "A"

Types == {HandlerType(h) : h \in Handlers}

\* MessageHandler.validateMessage, as the application of the test suite writes it.
validateMessage(h, message) ==
  /\ message.type # Undefined
  /\ "foo" \in DOMAIN message.attributes
  /\ message.body.payload # Undefined

(***************************************************************************)
(* State.                                                                   *)
(***************************************************************************)
VARIABLES
  client,           \* which client the process constructed
  queue,            \* the SQS queue: per message "absent", "visible", "inflight" or "deleted"
  raw,              \* the raw content of each message on the queue
  messageHandlers,  \* SqsQueueClient.messageHandlers: type -> handler
  firstRegistered,  \* per type, the handler of the first registerMessageHandler call
  registerThrew,    \* whether the last registerMessageHandler call threw
  pc,               \* position of the poll call
  task,             \* the per-message promises of the batch being processed
  deleteRequests,   \* receipt handles passed to the transport's deleteMessage for this batch
  outstanding,      \* number of transport receive calls in flight
  failedBefore,     \* messages whose processing failed in an earlier delivery
  n,                \* createConsumer._poll: the iteration budget (maxIterations)
  t,                \* createConsumer._poll: the iteration counter
  receives,         \* receive calls issued by the poll call so far
  firstEmpty,       \* index of the first receive that returned an empty batch, 0 if none
  pollError,        \* the error the promise of poll rejected with, "none" if none
  topic,            \* createPublisher: the topic the publisher was constructed with
  IGNORE_EVENTS,    \* process.env.IGNORE_EVENTS
  event,            \* the Message the caller passes to dispatch
  dispatched,       \* what the last dispatch call did, NotCalled before the first
  dispatches,       \* number of dispatch calls so far
  sendCalls,        \* number of calls of the transport's send so far
  sentRequest,      \* the request of the last send call, NoRequest before the first
  codecInput,       \* the value passed to encodeJson
  codecEncoded,     \* what encodeJson returned, and whether it was called
  codecDecoded,     \* what decodeJson made of it, and whether it was called
  decodeInput,      \* the raw body passed to createConsumer.getAttributes
  decodeOutput,     \* what getAttributes did with it, and whether it was called
  sendArgs,         \* the messages passed to SqsQueueClient.sendMessages
  sendPc,           \* position of the sendMessages call
  sendBatchRequest, \* the Entries of the sendMessageBatch call, <<>> before it
  sendBatchCalls,   \* number of sendMessageBatch calls so far
  legacy,           \* src/index.js and src/index.ts: the state of one poll call
  calls,            \* createPublisher: IGNORE_EVENTS and the outcome of every dispatch call
  pubsub            \* PubSubClient: the client, its subscription, messages, close call

vars == <<client, queue, raw, messageHandlers, firstRegistered, registerThrew,
          pc, task, deleteRequests, outstanding, failedBefore,
          n, t, receives, firstEmpty, pollError,
          topic, IGNORE_EVENTS, event, dispatched, dispatches, sendCalls, sentRequest,
          codecInput, codecEncoded, codecDecoded, decodeInput, decodeOutput,
          sendArgs, sendPc, sendBatchRequest, sendBatchCalls, legacy, calls, pubsub>>

publisherVars == <<topic, IGNORE_EVENTS, event, dispatched, dispatches, sendCalls,
                   sentRequest, calls>>

codecVars == <<codecInput, codecEncoded, codecDecoded, decodeInput, decodeOutput>>

senderVars == <<sendArgs, sendPc, sendBatchRequest, sendBatchCalls>>

legacyVars == <<legacy>>

pubsubVars == <<pubsub>>

pollVars == <<n, t, receives, firstEmpty, pollError>>

transportVars == <<queue, raw>>

registryVars == <<messageHandlers, firstRegistered, registerThrew>>

\* The receipt handle the transport hands out with message m.
ReceiptHandle(m) == m

\* A per-message promise.  st is "none" (not in the batch), "handling" (the handler is
\* running), "deleting" (the engine's deleteMessage is in flight) or "settled"; hs is
\* the handler's promise ("none", "running", "resolved", "rejected"); validatedBy and
\* called are the handlers whose validateMessage returned true and whose handleMessage
\* was called; del is the transport delete ("none", "issued", "ok", "failed").
Task(st, hs, outcome, validatedBy, called, del) ==
  [st |-> st, hs |-> hs, outcome |-> outcome, validatedBy |-> validatedBy,
   called |-> called, del |-> del]

NoTask == Task("none", "none", "none", {}, {}, "none")

\* A promise that failed before any handler was called.
Failed(outcome) == Task("settled", "none", outcome, {}, {}, "none")

Running(validatedBy, called) == Task("handling", "running", "none", validatedBy, called, "none")

Failures == {"DecodeError", "NoHandlerFound", "InvalidMessage", "HandlerRejected", "Aborted"}

AllSettled == \A m \in MsgIds : task[m].st \in {"none", "settled"}

Batch == {m \in MsgIds : task[m].st # "none"}

(***************************************************************************)
(* SqsQueueClient (sqsQueueClient.ts).                                      *)
(***************************************************************************)
\* SqsQueueClient.handleMessage up to its first await: look the handler up, validate,
\* call handler.handleMessage.
handleMessageNoValidate(message) ==
  LET handler == IF message.type \in DOMAIN messageHandlers
                 THEN messageHandlers[message.type] ELSE NoHandler
  IN IF handler = NoHandler THEN Failed("NoHandlerFound")
     ELSE Running({}, {handler})

handleMessage(message) ==
  LET handler == IF message.type \in DOMAIN messageHandlers
                 THEN messageHandlers[message.type] ELSE NoHandler
  IN IF handler = NoHandler THEN Failed("NoHandlerFound")
     ELSE IF ~validateMessage(handler, message) THEN Failed("InvalidMessage")
     ELSE Running({handler}, {handler})

\* The callback pollOnceForMessages maps over the batch, up to its first await.
processSqsMessage(m) ==
  LET mapped == mapSqsMessageToInternalMessage(raw[m])
  IN IF mapped.threw THEN Failed("DecodeError") ELSE handleMessage(mapped.msg)

\* receivedMessages.Messages?.map(async (message) => { try ... catch ... })
mapBatchAbortAtFirstFailure(batch) ==
  [m \in MsgIds |->
     IF m \notin batch THEN NoTask
     ELSE IF \E k \in batch : k < m /\ processSqsMessage(k).st = "settled"
     THEN Failed("Aborted")
     ELSE processSqsMessage(m)]

mapBatch(batch) ==
  [m \in MsgIds |-> IF m \in batch THEN processSqsMessage(m) ELSE NoTask]

\* What the callback does once handler.handleMessage has settled.
afterHandleMessageDeleteAlways(m, resolved) ==
  [task[m] EXCEPT !.st = "deleting", !.del = "issued",
                  !.hs = IF resolved THEN "resolved" ELSE "rejected",
                  !.outcome = IF resolved THEN @ ELSE "HandlerRejected"]

afterHandleMessage(m, resolved) ==
  IF resolved
  THEN [task[m] EXCEPT !.st = "deleting", !.hs = "resolved", !.del = "issued"]
  ELSE [task[m] EXCEPT !.st = "settled", !.hs = "rejected", !.outcome = "HandlerRejected"]

\* The catch block of pollOnceForMessages: the call resolves.
pollOnceCatchRethrows == "rejected"

pollOnceCatch == "resolved"

\* Promise.all(messageHandlerPromises) has resolved.
promiseAllNoWait == TRUE

promiseAll == AllSettled

\* registerMessageHandler: the new registry.
setHandlerOverwrite(h) == [messageHandlers EXCEPT ![HandlerType(h)] = h]

setHandler(h) ==
  IF messageHandlers[HandlerType(h)] # NoHandler THEN messageHandlers
  ELSE [messageHandlers EXCEPT ![HandlerType(h)] = h]

registerMessageHandler(h) ==
  /\ client = "SqsQueueClient"
  /\ registerThrew' = (messageHandlers[HandlerType(h)] # NoHandler)
  /\ messageHandlers' = setHandler(h)
  /\ firstRegistered' = IF firstRegistered[HandlerType(h)] = NoHandler
                        THEN [firstRegistered EXCEPT ![HandlerType(h)] = h]
                        ELSE firstRegistered
  /\ UNCHANGED <<pollVars, client, publisherVars, codecVars, senderVars, legacyVars, transportVars, pc, task, deleteRequests, outstanding,
                 failedBefore, pubsubVars>>

\* startPollForMessages is called: the first pollOnceForMessages issues its receive.
startPollForMessages ==
  /\ client = "SqsQueueClient"
  /\ pc = "idle"
  /\ pc' = "receiving"
  /\ outstanding' = outstanding + 1
  /\ UNCHANGED <<pollVars, client, publisherVars, codecVars, senderVars, legacyVars, transportVars, registryVars, task, deleteRequests, failedBefore, pubsubVars>>

\* The receive resolves with a batch: every message is decoded, looked up, validated
\* and handed to its handler before anything else runs.
SqsReceiveResolve(batch) ==
  /\ client = "SqsQueueClient"
  /\ pc = "receiving"
  /\ Cardinality(batch) <= DEFAULT_MAX_NUMBER_OF_MESSAGES
  /\ \A m \in batch : queue[m] = "visible"
  /\ queue' = [m \in MsgIds |-> IF m \in batch THEN "inflight" ELSE queue[m]]
  /\ task' = mapBatch(batch)
  /\ failedBefore' = failedBefore \cup {m \in batch : mapBatch(batch)[m].st = "settled"}
  /\ deleteRequests' = {}
  /\ outstanding' = outstanding - 1
  /\ pc' = "processing"
  /\ UNCHANGED <<pollVars, client, publisherVars, codecVars, senderVars, legacyVars, raw, registryVars, pubsubVars>>

\* The receive rejects (network error).
SqsReceiveFail ==
  /\ client = "SqsQueueClient"
  /\ pc = "receiving"
  /\ outstanding' = outstanding - 1
  /\ task' = [m \in MsgIds |-> NoTask]
  /\ deleteRequests' = {}
  /\ pc' = "threw"
  /\ UNCHANGED <<pollVars, client, publisherVars, codecVars, senderVars, legacyVars, transportVars, registryVars, failedBefore, pubsubVars>>

\* handler.handleMessage resolves: deleteSqsMessage issues the transport delete.
SqsHandlerResolve(m) ==
  /\ client = "SqsQueueClient"
  /\ task[m].st = "handling"
  /\ task' = [task EXCEPT ![m] = afterHandleMessage(m, TRUE)]
  /\ deleteRequests' = IF afterHandleMessage(m, TRUE).del = "issued"
                       THEN deleteRequests \cup {ReceiptHandle(m)} ELSE deleteRequests
  /\ UNCHANGED <<pollVars, client, publisherVars, codecVars, senderVars, legacyVars, transportVars, registryVars, pc, outstanding, failedBefore, pubsubVars>>

\* handler.handleMessage throws or rejects.
SqsHandlerReject(m) ==
  /\ client = "SqsQueueClient"
  /\ task[m].st = "handling"
  /\ task' = [task EXCEPT ![m] = afterHandleMessage(m, FALSE)]
  /\ deleteRequests' = IF afterHandleMessage(m, FALSE).del = "issued"
                       THEN deleteRequests \cup {ReceiptHandle(m)} ELSE deleteRequests
  /\ failedBefore' = failedBefore \cup {m}
  /\ UNCHANGED <<pollVars, client, publisherVars, codecVars, senderVars, legacyVars, transportVars, registryVars, pc, outstanding, pubsubVars>>

\* deleteSqsMessage once the transport's deleteMessage has settled: .then logs the
\* deletion, .catch logs the error; the promise it returns resolves either way.
deleteSqsMessageRethrows(m, deleted) ==
  [task[m] EXCEPT !.st = "settled", !.del = IF deleted THEN "ok" ELSE "failed",
                  !.outcome = IF ~deleted THEN "Aborted" ELSE IF @ = "none" THEN "ok" ELSE @]

deleteSqsMessage(m, deleted) ==
  [task[m] EXCEPT !.st = "settled", !.del = IF deleted THEN "ok" ELSE "failed",
                  !.outcome = IF @ = "none" THEN "ok" ELSE @]

\* The transport deletes the message.
SqsDeleteResolve(m) ==
  /\ client = "SqsQueueClient"
  /\ task[m].st = "deleting"
  /\ queue' = [queue EXCEPT ![m] = "deleted"]
  /\ task' = [task EXCEPT ![m] = deleteSqsMessage(m, TRUE)]
  /\ UNCHANGED <<pollVars, client, publisherVars, codecVars, senderVars, legacyVars, raw, registryVars, pc, deleteRequests, outstanding,
                 failedBefore, pubsubVars>>

\* The transport's deleteMessage rejects: deleteSqsMessage logs it and resolves.
SqsDeleteReject(m) ==
  /\ client = "SqsQueueClient"
  /\ task[m].st = "deleting"
  /\ task' = [task EXCEPT ![m] = deleteSqsMessage(m, FALSE)]
  /\ UNCHANGED <<pollVars, client, publisherVars, codecVars, senderVars, legacyVars, transportVars, registryVars, pc, deleteRequests,
                 outstanding, failedBefore, pubsubVars>>

\* pollOnceForMessages settles: Promise.all resolved, or the catch block ran; the loop
\* of startPollForMessages calls pollOnceForMessages again.
SqsPollOnceSettle ==
  /\ client = "SqsQueueClient"
  /\ pc \in {"processing", "threw"}
  /\ pc = "processing" => promiseAll
  /\ LET result == IF pc = "threw" THEN pollOnceCatch ELSE "resolved"
     IN /\ pc' = IF result = "rejected" THEN "rejected" ELSE "receiving"
        /\ outstanding' = IF result = "rejected" THEN outstanding ELSE outstanding + 1
  /\ task' = [m \in MsgIds |-> NoTask]
  /\ deleteRequests' = {}
  /\ UNCHANGED <<pollVars, client, publisherVars, codecVars, senderVars, legacyVars, transportVars, registryVars, failedBefore, pubsubVars>>

(***************************************************************************)
(* The queue (the transport).                                               *)
(***************************************************************************)
\* The visibility timeout of a received, undeleted message elapses.
VisibilityTimeout(m) ==
  /\ queue[m] = "inflight"
  /\ queue' = [queue EXCEPT ![m] = "visible"]
  /\ UNCHANGED <<pollVars, client, publisherVars, codecVars, senderVars, legacyVars, raw, registryVars, pc, task, deleteRequests, outstanding,
                 failedBefore, pubsubVars>>

\* The topic the queue is subscribed to relays a notification to the queue.
SnsDeliver(m, notification) ==
  /\ client = "SqsQueueClient"
  /\ queue[m] = "absent"
  /\ queue' = [queue EXCEPT ![m] = "visible"]
  /\ raw' = [raw EXCEPT ![m] = notification]
  /\ UNCHANGED <<pollVars, client, publisherVars, codecVars, senderVars, legacyVars,
                 registryVars, pc, task, deleteRequests, outstanding, failedBefore, pubsubVars>>

(***************************************************************************)
(* createConsumer (index.ts).                                               *)
(***************************************************************************)
\* deleteMessage(message): the ack closure deletes by the receipt handle it captured.
ackOfFirstInBatch(m) == ReceiptHandle(CHOOSE k \in Batch : \A j \in Batch : k <= j)

ack(m) == ReceiptHandle(m)

\* The callback receiveMessages maps over the batch, up to its first await:
\* getAttributes, deleteMessage, then the call of processMessage.
receiveMessage(m) ==
  IF getAttributes(raw[m].Body).threw THEN Failed("DecodeError")
  ELSE Running({}, {"processMessage"})

receiveMessages(batch) ==
  [m \in MsgIds |-> IF m \in batch THEN receiveMessage(m) ELSE NoTask]

\* _poll(processMessage, n, t, params): returns at once when t >= n, else wait() issues
\* a receive.
pollStep(budget, counter) == IF counter >= budget THEN "resolved" ELSE "receiving"

\* poll(processMessage, {maxIterations})
poll(maxIterations) ==
  /\ client = "createConsumer"
  /\ pc = "idle"
  /\ n' = maxIterations
  /\ t' = 0
  /\ pc' = pollStep(maxIterations, 0)
  /\ receives' = IF pollStep(maxIterations, 0) = "receiving" THEN 1 ELSE 0
  /\ outstanding' = IF pollStep(maxIterations, 0) = "receiving" THEN 1 ELSE 0
  /\ UNCHANGED <<client, publisherVars, codecVars, senderVars, legacyVars, transportVars, registryVars, task, deleteRequests, failedBefore,
                 firstEmpty, pollError, pubsubVars>>

\* The receive of wait() resolves with a batch.  A message whose body does not decode
\* rejects its promise, and Promise.all rejects with it.
ConsumerReceiveResolve(batch) ==
  /\ client = "createConsumer"
  /\ pc = "receiving"
  /\ Cardinality(batch) <= DEFAULT_MAX_NUMBER_OF_MESSAGES
  /\ \A m \in batch : queue[m] = "visible"
  /\ queue' = [m \in MsgIds |-> IF m \in batch THEN "inflight" ELSE queue[m]]
  /\ task' = receiveMessages(batch)
  /\ deleteRequests' = {}
  /\ outstanding' = outstanding - 1
  /\ firstEmpty' = IF batch = {} /\ firstEmpty = 0 THEN receives ELSE firstEmpty
  /\ IF \E m \in batch : receiveMessages(batch)[m].outcome = "DecodeError"
     THEN pc' = "rejected" /\ pollError' = "DecodeError"
     ELSE pc' = "processing" /\ pollError' = pollError
  /\ UNCHANGED <<client, publisherVars, codecVars, senderVars, legacyVars, raw, registryVars, failedBefore, n, t, receives, pubsubVars>>

\* The receive of wait() rejects: nothing catches it.
ConsumerReceiveFail ==
  /\ client = "createConsumer"
  /\ pc = "receiving"
  /\ outstanding' = outstanding - 1
  /\ pc' = "rejected"
  /\ pollError' = "TransportError"
  /\ UNCHANGED <<client, publisherVars, codecVars, senderVars, legacyVars, transportVars, registryVars, task, deleteRequests, failedBefore,
                 n, t, receives, firstEmpty, pubsubVars>>

\* processMessage calls the ack it was given: the transport delete is issued.
ConsumerAck(m) ==
  /\ client = "createConsumer"
  /\ task[m].st = "handling"
  /\ task[m].del = "none"
  /\ task' = [task EXCEPT ![m].del = "issued"]
  /\ deleteRequests' = deleteRequests \cup {ack(m)}
  /\ UNCHANGED <<pollVars, client, publisherVars, codecVars, senderVars, legacyVars, transportVars, registryVars, pc, outstanding,
                 failedBefore, pubsubVars>>

\* The transport deletes the message named by the receipt handle.
ConsumerAckResolve(m) ==
  /\ client = "createConsumer"
  /\ task[m].del = "issued"
  /\ queue' = [queue EXCEPT ![ack(m)] = "deleted"]
  /\ task' = [task EXCEPT ![m].del = "ok"]
  /\ UNCHANGED <<pollVars, client, publisherVars, codecVars, senderVars, legacyVars, raw, registryVars, pc, deleteRequests, outstanding,
                 failedBefore, pubsubVars>>

\* The transport's delete rejects: ack() rejects to processMessage.
ConsumerAckReject(m) ==
  /\ client = "createConsumer"
  /\ task[m].del = "issued"
  /\ task' = [task EXCEPT ![m].del = "failed"]
  /\ UNCHANGED <<pollVars, client, publisherVars, codecVars, senderVars, legacyVars, transportVars, registryVars, pc, deleteRequests,
                 outstanding, failedBefore, pubsubVars>>

\* processMessage resolves (it awaits the ack it called, as in the README).
ConsumerHandlerResolve(m) ==
  /\ client = "createConsumer"
  /\ task[m].st = "handling"
  /\ task[m].del # "issued"
  /\ task' = [task EXCEPT ![m].st = "settled", ![m].hs = "resolved", ![m].outcome = "ok"]
  /\ UNCHANGED <<pollVars, client, publisherVars, codecVars, senderVars, legacyVars, transportVars, registryVars, pc, deleteRequests,
                 outstanding, failedBefore, pubsubVars>>

\* processMessage throws or rejects: Promise.all, wait, _poll and poll reject with it,
\* while the other promises of the batch go on.
ConsumerHandlerReject(m) ==
  /\ client = "createConsumer"
  /\ task[m].st = "handling"
  /\ task[m].del # "issued"
  /\ task' = [task EXCEPT ![m].st = "settled", ![m].hs = "rejected",
                          ![m].outcome = "HandlerRejected"]
  /\ pc' = IF pc = "processing" THEN "rejected" ELSE pc
  /\ pollError' = IF pc = "processing" THEN "HandlerRejected" ELSE pollError
  /\ UNCHANGED <<client, publisherVars, codecVars, senderVars, legacyVars, transportVars, registryVars, deleteRequests, outstanding,
                 failedBefore, n, t, receives, firstEmpty, pubsubVars>>

\* Promise.all resolves with the batch's messages: _poll returns on an empty batch,
\* else recurses with t + 1.
ConsumerWaitResolve ==
  /\ client = "createConsumer"
  /\ pc = "processing"
  /\ promiseAll
  /\ LET next == IF Batch = {} THEN "resolved" ELSE pollStep(n, t + 1)
     IN /\ pc' = next
        /\ t' = IF Batch = {} THEN t ELSE t + 1
        /\ receives' = IF next = "receiving" THEN receives + 1 ELSE receives
        /\ outstanding' = IF next = "receiving" THEN outstanding + 1 ELSE outstanding
  /\ task' = [m \in MsgIds |-> NoTask]
  /\ deleteRequests' = {}
  /\ UNCHANGED <<client, publisherVars, codecVars, senderVars, legacyVars, transportVars, registryVars, failedBefore, n, firstEmpty,
                 pollError, pubsubVars>>

(***************************************************************************)
(* The attribute codec as its callers use it.                               *)
(***************************************************************************)
\* The codec's calls: what encodeJson returned and what decodeJson made of it.
Encoded(called, base64) == [called |-> called, base64 |-> base64]

Decoded(called, threw, value) == [called |-> called, threw |-> threw, value |-> value]

\* The caller encodes codecInput.
EncodeJson ==
  /\ client = "base64"
  /\ ~codecEncoded.called
  /\ codecEncoded' = Encoded(TRUE, encodeJson(codecInput))
  /\ UNCHANGED <<client, transportVars, registryVars, pollVars, pc, task, deleteRequests,
                 outstanding, failedBefore, publisherVars, senderVars, legacyVars,
                 codecInput, codecDecoded, decodeInput, decodeOutput, pubsubVars>>

\* The receiver decodes what was encoded.
DecodeJson ==
  /\ client = "base64"
  /\ codecEncoded.called /\ ~codecDecoded.called
  /\ codecDecoded' = Decoded(TRUE, ~decodeJson(codecEncoded.base64).ok,
                             decodeJson(codecEncoded.base64).value)
  /\ UNCHANGED <<client, transportVars, registryVars, pollVars, pc, task, deleteRequests,
                 outstanding, failedBefore, publisherVars, senderVars, legacyVars,
                 codecInput, codecEncoded, decodeInput, decodeOutput, pubsubVars>>

\* The consumer calls getAttributes(decodeInput).
GetAttributes ==
  /\ client = "createConsumer"
  /\ ~decodeOutput.called
  /\ decodeOutput' = [called |-> TRUE, out |-> getAttributes(decodeInput)]
  /\ UNCHANGED <<client, transportVars, registryVars, pollVars, pc, task, deleteRequests,
                 outstanding, failedBefore, publisherVars, senderVars, legacyVars,
                 codecInput, codecEncoded, codecDecoded, decodeInput, pubsubVars>>

\* The application calls mapAttributes of src/src/index.ts on an envelope.
TsMapAttributes ==
  /\ client = "index.ts"
  /\ ~decodeOutput.called
  /\ decodeOutput' = [called |-> TRUE, out |-> tsMapAttributes(decodeInput)]
  /\ UNCHANGED <<client, transportVars, registryVars, pollVars, pc, task, deleteRequests,
                 outstanding, failedBefore, publisherVars, senderVars, legacyVars,
                 codecInput, codecEncoded, codecDecoded, decodeInput, pubsubVars>>

(***************************************************************************)
(* The poll of src/index.js.  A number that may be undefined is a record.   *)
(***************************************************************************)
Num(k) == [defined |-> TRUE, k |-> k]

Undef == [defined |-> FALSE, k |-> 0]

\* The second argument of poll: an options object, a number, or undefined.
PollingOptions(m, count) == [kind |-> "object", maxNumberOfMessages |-> m, maxIterations |-> count]

NumberArgument(v) ==
  IF v.defined THEN [kind |-> "number", maxNumberOfMessages |-> Undef, maxIterations |-> v]
  ELSE [kind |-> "undefined", maxNumberOfMessages |-> Undef, maxIterations |-> Undef]

\* { maxNumberOfMessages, maxIterations } = { maxNumberOfMessages: 10, maxIterations: 10 }:
\* the default applies to undefined only, and a number has neither property.
destructure(arg) ==
  IF arg.kind = "undefined" THEN PollingOptions(Num(10), Num(10))
  ELSE PollingOptions(arg.maxNumberOfMessages, arg.maxIterations)

\* t >= n, which is false when n is undefined.
AtLeast(count, limit) == limit.defined /\ count >= limit.k

\* One poll call: where it is, the arguments of the current pollStart, the options the
\* caller passed, and the MaxNumberOfMessages of every receive issued so far.
LegacyPoll(at, limit, count, params, options, requested) ==
  [pc |-> at, n |-> limit, t |-> count, MaxNumberOfMessages |-> params,
   options |-> options, requested |-> requested]

LegacyIdle == LegacyPoll("idle", Undef, 0, Undef, NumberArgument(Undef), <<>>)

\* poll(processMessage, arg), called by the application or by pollStart: pollStart
\* resolves when t >= n and issues a receive otherwise.
legacyPoll(arg, options, requested) ==
  LET o == destructure(arg) IN
  IF AtLeast(0, o.maxIterations)
  THEN LegacyPoll("resolved", o.maxIterations, 0, o.maxNumberOfMessages, options, requested)
  ELSE LegacyPoll("receiving", o.maxIterations, 0, o.maxNumberOfMessages, options,
                  Append(requested, o.maxNumberOfMessages))

\* The application calls poll(processMessage, options), or poll(processMessage).
LegacyPollCall(arg) ==
  /\ client = "index.js"
  /\ legacy.pc = "idle"
  /\ legacy' = legacyPoll(arg, arg, <<>>)
  /\ UNCHANGED <<client, transportVars, registryVars, pollVars, pc, task, deleteRequests,
                 outstanding, failedBefore, publisherVars, codecVars, senderVars, pubsubVars>>

\* The receive returns a batch and every processMessage promise resolves: an empty
\* batch ends the poll, any other makes pollStart call poll(processMessage, n, t + 1).
LegacyReceiveResolve(results) ==
  /\ client = "index.js"
  /\ legacy.pc = "receiving"
  /\ results = 0 \/ Len(legacy.requested) < MaxLegacyReceives
  /\ legacy' = IF results = 0 THEN [legacy EXCEPT !.pc = "resolved"]
               ELSE legacyPoll(NumberArgument(legacy.n), legacy.options, legacy.requested)
  /\ UNCHANGED <<client, transportVars, registryVars, pollVars, pc, task, deleteRequests,
                 outstanding, failedBefore, publisherVars, codecVars, senderVars, pubsubVars>>

\* The receive fails, or a processMessage promise rejects: the poll rejects.
LegacyReceiveReject ==
  /\ client = "index.js"
  /\ legacy.pc = "receiving"
  /\ legacy' = [legacy EXCEPT !.pc = "rejected"]
  /\ UNCHANGED <<client, transportVars, registryVars, pollVars, pc, task, deleteRequests,
                 outstanding, failedBefore, publisherVars, codecVars, senderVars, pubsubVars>>

\* The options an application passes.
LegacyArguments ==
  {NumberArgument(Undef)}
    \cup {PollingOptions(Num(m), Num(count)) :
            m \in 1..DEFAULT_MAX_NUMBER_OF_MESSAGES, count \in 0..MaxIterations}

(***************************************************************************)
(* The poll of src/src/index.ts.                                            *)
(***************************************************************************)
\* v ?? 10
OrTen(v) == IF v.defined THEN v.k ELSE 10

\* pollStart(processMessage, n, t, receiveMessageParams): resolves when t >= n and
\* issues a receive otherwise.
tsPollStart(limit, count, params, options, requested) ==
  IF count >= limit
  THEN LegacyPoll("resolved", Num(limit), count, params, options, requested)
  ELSE LegacyPoll("receiving", Num(limit), count, params, options,
                  Append(requested, params))

\* The exported poll: poll(processMessage, 0, params?.maxIterations ?? 10,
\* {QueueUrl, MaxNumberOfMessages: params?.maxNumberOfMessages ?? 10}), where the
\* private poll takes (processMessage, n, t, receiveMessageParams).
tsPoll(arg) ==
  tsPollStart(0, OrTen(arg.maxIterations), Num(OrTen(arg.maxNumberOfMessages)), arg, <<>>)

\* The application calls consumer.poll(processMessage, params).
TsPollCall(arg) ==
  /\ client = "index.ts"
  /\ legacy.pc = "idle"
  /\ legacy' = tsPoll(arg)
  /\ UNCHANGED <<client, transportVars, registryVars, pollVars, pc, task, deleteRequests,
                 outstanding, failedBefore, publisherVars, codecVars, senderVars,
                 pubsubVars>>

\* The messages of a batch for which receiveMessages called processMessage: all of
\* them, or those before the first whose body getAttributes throws on.
tsInvoked(batch) ==
  {m \in batch : \A k \in batch : k <= m => ~tsGetAttributes(raw[k].Body).threw}

\* sqs.receiveMessage calls back with a batch: an empty batch resolves the poll; a
\* batch with a body getAttributes throws on raises inside the callback, outside
\* every promise; otherwise processMessage runs for every message.
TsReceiveResolve(batch) ==
  /\ client = "index.ts"
  /\ legacy.pc = "receiving"
  /\ Cardinality(batch) <= legacy.MaxNumberOfMessages.k
  /\ \A m \in batch : queue[m] = "visible"
  /\ queue' = [m \in MsgIds |-> IF m \in batch THEN "inflight" ELSE queue[m]]
  /\ task' = [m \in MsgIds |-> IF m \in tsInvoked(batch)
                               THEN Running({}, {"processMessage"}) ELSE NoTask]
  /\ legacy' = [legacy EXCEPT !.pc = IF batch = {} THEN "resolved"
                                     ELSE IF tsInvoked(batch) # batch THEN "uncaught"
                                     ELSE "processing"]
  /\ UNCHANGED <<client, raw, registryVars, pollVars, pc, deleteRequests,
                 outstanding, failedBefore, publisherVars, codecVars, senderVars,
                 pubsubVars>>

\* sqs.receiveMessage calls back with an error: the poll rejects.
TsReceiveReject ==
  /\ client = "index.ts"
  /\ legacy.pc = "receiving"
  /\ legacy' = [legacy EXCEPT !.pc = "rejected"]
  /\ UNCHANGED <<client, transportVars, registryVars, pollVars, pc, task, deleteRequests,
                 outstanding, failedBefore, publisherVars, codecVars, senderVars,
                 pubsubVars>>

\* A processMessage promise settles.  Promise.all rejects on the first rejection, and
\* the poll with it; when the last one resolves pollStart calls
\* poll(processMessage, n, t + 1, receiveMessageParams).
TsProcessSettle(m, resolved) ==
  /\ client = "index.ts"
  /\ legacy.pc \in {"processing", "rejected"}
  /\ task[m].st = "handling"
  /\ LET settled == [task EXCEPT ![m].st = "settled",
                                 ![m].hs = IF resolved THEN "resolved" ELSE "rejected"]
     IN /\ task' = settled
        /\ legacy' =
             IF legacy.pc = "rejected" THEN legacy
             ELSE IF ~resolved THEN [legacy EXCEPT !.pc = "rejected"]
             ELSE IF \E k \in MsgIds : settled[k].st = "handling" THEN legacy
             ELSE tsPollStart(legacy.n.k, legacy.t + 1, legacy.MaxNumberOfMessages,
                              legacy.options, legacy.requested)
  /\ UNCHANGED <<client, transportVars, registryVars, pollVars, pc, deleteRequests,
                 outstanding, failedBefore, publisherVars, codecVars, senderVars,
                 pubsubVars>>

\* What reaches the queue of a consumer of src/src/index.ts, and the params an
\* application passes to poll.
TsRawMessages ==
  { RawMessage(EmptyAttrs,
               NotificationBody(Restrict(TsEnvelopeAttrs,
                                         {"type", "source", "checksum", "message"}),
                                "order 1 is pending")),
    RawMessage(EmptyAttrs, StorageEventBody("s3:ObjectCreated")),
    RawMessage(EmptyAttrs, GarbageBody) }

TsArguments ==
  {NumberArgument(Undef)}
    \cup {PollingOptions(m, count) :
            m \in {Undef, Num(1), Num(DEFAULT_MAX_NUMBER_OF_MESSAGES)},
            count \in {Undef} \cup {Num(k) : k \in (0 - 1)..MaxIterations}}

(***************************************************************************)
(* SqsQueueClient.sendMessages (sqsQueueClient.ts) and the transport's      *)
(* sendMessageBatch.                                                        *)
(***************************************************************************)
\* The member names and the texts of the bodies of the model, as characters.
TypeChars == <<"T", "y", "p", "e">>
ValueChars == <<"V", "a", "l", "u", "e">>
MessageChars == <<"M", "e", "s", "s", "a", "g", "e">>
MessageAttributesChars == MessageChars \o <<"A", "t", "t", "r", "i", "b", "u", "t", "e", "s">>
NotificationChars == <<"N", "o", "t", "i", "f", "i", "c", "a", "t", "i", "o", "n">>
StringChars == <<"S", "t", "r", "i", "n", "g">>
PayloadChars == <<"p", "a", "y", "l", "o", "a", "d">>
TestChars == <<"t", "e", "s", "t">>
RecordsChars == <<"R", "e", "c", "o", "r", "d", "s">>

\* value[key] of a parsed JSON value; a later member of the same name wins.
JUndefined == JsonValue("undefined", 0, <<>>, <<>>, <<>>)

Member(value, key) ==
  IF value.kind = "object" /\ \E i \in 1..Len(value.keys) : value.keys[i] = key
  THEN value.items[CHOOSE i \in 1..Len(value.keys) :
                     /\ value.keys[i] = key
                     /\ \A j \in 1..Len(value.keys) : value.keys[j] = key => j <= i]
  ELSE JUndefined

\* A string member as a text, Undefined when it is no string.
StringOf(value) == IF value.kind = "string" THEN Text(value.chars) ELSE Undefined

\* The nested MessageAttributes member of a parsed body.
SnsAttrsOf(value) ==
  IF value.kind # "object" THEN EmptyAttrs
  ELSE [k \in {Text(value.keys[i]) : i \in 1..Len(value.keys)} |->
          LET attr == Member(value, CHOOSE key \in {value.keys[i] : i \in 1..Len(value.keys)} :
                                      Text(key) = k)
          IN SnsAttr(StringOf(Member(attr, TypeChars)), StringOf(Member(attr, ValueChars)))]

\* JSON.parse(message.Body): the members of the parsed body that the library reads.
BodyOf(chars) ==
  LET parsed == parse(chars) IN
  IF ~parsed.ok THEN [GarbageBody EXCEPT !.empty = (chars = <<>>)]
  ELSE LET records == Member(parsed.value, RecordsChars)
           nested == Member(parsed.value, MessageAttributesChars)
       IN [empty |-> FALSE, parses |-> TRUE,
           Records |-> IF records.kind = "array" /\ records.items # <<>>
                       THEN StringOf(records.items[1]) ELSE Undefined,
           Type |-> StringOf(Member(parsed.value, TypeChars)),
           Message |-> StringOf(Member(parsed.value, MessageChars)),
           hasAttributes |-> nested.kind \notin {"undefined", "null", "false"},
           MessageAttributes |-> SnsAttrsOf(nested),
           payload |-> StringOf(Member(parsed.value, PayloadChars))]

\* dataTypeMap[typeof value]
dataTypeMap(typeofValue) ==
  CASE typeofValue = "string" -> "String"
    [] typeofValue = "number" -> "Number"
    [] typeofValue = "object" -> "Binary"
    [] OTHER -> Undefined

\* new TextEncoder().encode(JSON.stringify(value)) for an object attribute, which the
\* model knows by its payload member.
InnerStringify(payload) ==
  IF payload = Undefined THEN "{}" ELSE "{\"payload\":\"" \o payload \o "\"}"

\* mapAttributesToSqsMessageAttributes(message.attributes); a number is held as its
\* canonical decimal text, which is what Number.prototype.toString returns.
mapAttributesToSqsMessageAttributes(attributes) ==
  [key \in DOMAIN attributes |->
     LET value == attributes[key] IN
     IF dataTypeMap(value.t) = "Binary"
     THEN [DataType |-> "Binary", StringValue |-> Undefined,
           BinaryValue |-> InnerStringify(value.v)]
     ELSE [DataType |-> dataTypeMap(value.t), StringValue |-> value.v,
           BinaryValue |-> Undefined]]

\* formatMessageType(message.type)
formatMessageType(messageType) ==
  IF messageType # "" /\ messageType # Undefined
  THEN [key \in {"type"} |-> StringAttr(messageType)]
  ELSE EmptyAttrs

\* {...a, ...b}
SpreadKeepingFirst(a, b) ==
  [key \in DOMAIN a \cup DOMAIN b |-> IF key \in DOMAIN a THEN a[key] ELSE b[key]]

Spread(a, b) == [key \in DOMAIN a \cup DOMAIN b |-> IF key \in DOMAIN b THEN b[key] ELSE a[key]]

\* A message as a caller passes it to sendMessages.
SentMessage(type, attributes, body) ==
  [type |-> type, attributes |-> attributes, body |-> body, delaySeconds |-> Undefined,
   messageGroupId |-> Undefined, messageDeduplicationId |-> Undefined]

\* One entry of the batch request.
Entry(message, index) ==
  [Id |-> Text(Digits(index)),
   DelaySeconds |-> IF message.delaySeconds = Undefined THEN 0 ELSE message.delaySeconds,
   MessageBody |-> stringify(message.body),
   MessageGroupId |-> message.messageGroupId,
   MessageDeduplicationId |-> message.messageDeduplicationId,
   MessageAttributes |-> Spread(mapAttributesToSqsMessageAttributes(message.attributes),
                                formatMessageType(message.type))]

\* messages.map((message, index) => ...): index counts from 0.
Entries(messages) == [i \in 1..Len(messages) |-> Entry(messages[i], i - 1)]

\* The guard of sendMessages.
tooMany(messages) == Len(messages) > 10

\* if (result.Failed?.length) throw
sendOutcomeIgnoringFailed(failed) == "resolved"

sendOutcome(failed) == IF failed # {} THEN "rejected" ELSE "resolved"

\* sendMessages(...sendArgs) up to its await.
sendMessages ==
  /\ client = "SqsQueueClient"
  /\ sendPc = "idle"
  /\ IF tooMany(sendArgs)
     THEN /\ sendPc' = "rejected"
          /\ UNCHANGED <<sendBatchRequest, sendBatchCalls, pubsubVars>>
     ELSE /\ sendPc' = "sending"
          /\ sendBatchRequest' = Entries(sendArgs)
          /\ sendBatchCalls' = sendBatchCalls + 1
  /\ UNCHANGED <<client, transportVars, registryVars, pollVars, pc, task, deleteRequests,
                 outstanding, failedBefore, publisherVars, codecVars, legacyVars, sendArgs, pubsubVars>>

\* sendMessageBatch resolves: the entries not in failed are on the queue, and
\* sendMessages settles.
SendBatchResolve(failed) ==
  /\ client = "SqsQueueClient"
  /\ sendPc = "sending"
  /\ Len(sendBatchRequest) <= 10
  /\ failed \subseteq 1..Len(sendBatchRequest)
  /\ queue' = [m \in MsgIds |->
                 IF m <= Len(sendBatchRequest) /\ m \notin failed THEN "visible" ELSE queue[m]]
  /\ raw' = [m \in MsgIds |->
               IF m <= Len(sendBatchRequest) /\ m \notin failed
               THEN RawMessage(sendBatchRequest[m].MessageAttributes,
                               BodyOf(sendBatchRequest[m].MessageBody))
               ELSE raw[m]]
  /\ sendPc' = sendOutcome(failed)
  /\ UNCHANGED <<client, registryVars, pollVars, pc, task, deleteRequests,
                 outstanding, failedBefore, publisherVars, codecVars, legacyVars, sendArgs,
                 sendBatchRequest, sendBatchCalls, pubsubVars>>

\* sendMessageBatch rejects: nothing is on the queue, sendMessages rejects.
SendBatchReject ==
  /\ client = "SqsQueueClient"
  /\ sendPc = "sending"
  /\ sendPc' = "rejected"
  /\ UNCHANGED <<client, transportVars, registryVars, pollVars, pc, task, deleteRequests,
                 outstanding, failedBefore, publisherVars, codecVars, legacyVars, sendArgs,
                 sendBatchRequest, sendBatchCalls, pubsubVars>>

\* The messages a caller sends in this model.
FooBar == [key \in {"foo"} |-> Value("string", "bar")]

PayloadBody == JObject(<<PayloadChars>>, <<JString(TestChars)>>)

SnsJson(type, chars) == JObject(<<TypeChars, ValueChars>>, <<JString(type), JString(chars)>>)

\* A body that has the members of an SNS notification.
NotificationLikeBody ==
  JObject(<<TypeChars, MessageChars, MessageAttributesChars>>,
          <<JString(NotificationChars), JString(stringify(PayloadBody)),
            JObject(<<(<<"t", "y", "p", "e">>), (<<"f", "o", "o">>)>>,
                    <<SnsJson(StringChars, <<"A">>), SnsJson(StringChars, <<"b", "a", "r">>)>>)>>)

SentMessages ==
  { SentMessage("A", FooBar, PayloadBody),
    SentMessage("A", [key \in {"foo", "obj"} |->
                        IF key = "foo" THEN Value("number", "1") ELSE Value("object", "test")],
                PayloadBody),
    SentMessage("B", [key \in {"foo", "type"} |->
                        IF key = "foo" THEN Value("string", "bar") ELSE Value("string", "A")],
                PayloadBody),
    SentMessage("", FooBar, PayloadBody),
    SentMessage("A", FooBar, NotificationLikeBody) }

\* The calls of sendMessages: up to MaxMsgs messages, or eleven.
SendCalls ==
  UNION {[1..k -> SentMessages] : k \in 1..MaxMsgs}
    \cup {[i \in 1..11 |-> SentMessage("A", FooBar, PayloadBody)]}

(***************************************************************************)
(* createPublisher: the values a caller can pass and what dispatch makes of *)
(* them.  A JavaScript value is kept as its kind, its text and the number   *)
(* of UTF-8 bytes its JSON-escaped text takes.                              *)
(***************************************************************************)
Str(text, bytes) == [kind |-> "string", text |-> text, bytes |-> bytes]

JsNumber(text, bytes) == [kind |-> "number", text |-> text, bytes |-> bytes]

JsUndefined == [kind |-> "undefined", text |-> "undefined", bytes |-> 0]

JsNull == [kind |-> "null", text |-> "null", bytes |-> 0]

\* An object passed as Message.json; "cyclic" is one JSON.stringify cannot serialise.
JsObject(text) == [kind |-> "object", text |-> text, bytes |-> 0]

\* Strings Number() converts to a number.
NumericTexts == {"", "12"}

\* The global isNaN(v): Number(v) is NaN.
isNaN(v) ==
  CASE v.kind = "number" -> v.text = "NaN"
    [] v.kind = "string" -> v.text \notin NumericTexts
    [] v.kind = "undefined" -> TRUE
    [] OTHER -> FALSE

\* !v
Falsy(v) ==
  \/ v.kind \in {"undefined", "null"}
  \/ v.kind = "string" /\ v.bytes = 0
  \/ v.kind = "number" /\ v.text \in {"0", "NaN"}

\* v.toString() throws a TypeError on null and undefined.
HasToString(v) == v.kind \notin {"undefined", "null"}

\* Members of the Events enumeration.
Events == {"ORDER_PENDING", "ORDER_COMPLETED"}

\* const isFIFO = topic.endsWith(".fifo")
FifoTopic == Str("arn:aws:sns:events.fifo", 23)

StandardTopic == Str("arn:aws:sns:events", 18)

isFIFO == topic.text = "arn:aws:sns:events.fifo"

apiHost == Str("https://api", 11)

\* encodeJson(json) throws when JSON.stringify cannot serialise the object.
encodeJsonThrows(json) == json.text = "cyclic"

\* The JSON value of an object passed as Message.json.
JsonOf(json) == IF json.text = "{}" THEN JObject(<<>>, <<>>) ELSE JNull

\* The Message object passed to dispatch.
EventMessage(type, uri, id, checksum, source, body, json, groupId, transactionId) ==
  [type |-> type, uri |-> uri, id |-> id, checksum |-> checksum, source |-> source,
   message |-> body, json |-> json, groupId |-> groupId,
   transactionId |-> transactionId]

\* One attribute of the map: {DataType, StringValue}.
Attribute(dataType, value) == [DataType |-> dataType, StringValue |-> value]

\* The MessageAttributes dispatch builds: type, checksum and source always, uri, id and
\* json when given.
messageAttributesJsonAsBinary(msg) ==
  LET names == {"type", "checksum", "source"}
                 \cup (IF Falsy(msg.uri) THEN {} ELSE {"uri"})
                 \cup (IF Falsy(msg.id) THEN {} ELSE {"id"})
                 \cup (IF Falsy(msg.json) THEN {} ELSE {"json"})
  IN [name \in names |->
        CASE name = "type" -> Attribute("String", Str(msg.type.text, msg.type.bytes))
          [] name = "checksum" ->
               Attribute("Number", Str(msg.checksum.text, msg.checksum.bytes))
          [] name = "source" -> Attribute("String", msg.source)
          [] name = "uri" -> Attribute("String", Str(apiHost.text \o msg.uri.text,
                                                     apiHost.bytes + msg.uri.bytes))
          [] name = "id" -> Attribute("String", msg.id)
          [] name = "json" ->
               Attribute("Binary", Str(Text(stringify(JsonOf(msg.json))),
                                       Len(stringify(JsonOf(msg.json)))))]

messageAttributes(msg) ==
  LET names == {"type", "checksum", "source"}
                 \cup (IF Falsy(msg.uri) THEN {} ELSE {"uri"})
                 \cup (IF Falsy(msg.id) THEN {} ELSE {"id"})
                 \cup (IF Falsy(msg.json) THEN {} ELSE {"json"})
  IN [name \in names |->
        CASE name = "type" -> Attribute("String", Str(msg.type.text, msg.type.bytes))
          [] name = "checksum" ->
               Attribute("Number", Str(msg.checksum.text, msg.checksum.bytes))
          [] name = "source" -> Attribute("String", msg.source)
          [] name = "uri" -> Attribute("String", Str(apiHost.text \o msg.uri.text,
                                                     apiHost.bytes + msg.uri.bytes))
          [] name = "id" -> Attribute("String", msg.id)
          [] name = "json" ->
               Attribute("String", Str(Text(encodeJson(JsonOf(msg.json))),
                                       Len(encodeJson(JsonOf(msg.json)))))]

\* A PublishCommandInput.
PublishCommandInput(attributes, topicArn, body, groupId, deduplicationId) ==
  [MessageAttributes |-> attributes, TopicArn |-> topicArn, Message |-> body,
   MessageGroupId |-> groupId, MessageDeduplicationId |-> deduplicationId]

NoRequest ==
  PublishCommandInput([name \in {"none"} |-> Attribute("none", JsUndefined)], JsUndefined,
                      JsUndefined,
                      JsUndefined, JsUndefined)

\* const eventParams = {MessageAttributes, TopicArn: topic, Message: message}
eventParams(msg) ==
  PublishCommandInput(messageAttributes(msg), topic, msg.message, JsUndefined,
                      JsUndefined)

\* Bytes of one string member of a JSON object after the first: ,"key":"value"
MemberBytes(key, value) == 1 + (key + 2) + 1 + (value.bytes + 2)

\* Bytes of one serialized attribute: "name":{"DataType":"String","StringValue":"v"}
AttributeBytes(name, value) == (name + 2) + 1 + 38 + value.StringValue.bytes

AttributeNameBytes ==
  [name \in {"type", "checksum", "source", "uri", "id", "json"} |->
     CASE name = "type" -> 4 [] name = "checksum" -> 8 [] name = "source" -> 6
       [] name = "uri" -> 3 [] name = "id" -> 2 [] name = "json" -> 4]

RECURSIVE AttributesBytes(_, _)
AttributesBytes(attributes, names) ==
  IF names = {} THEN 0
  ELSE LET name == CHOOSE x \in names : TRUE
       IN AttributeBytes(AttributeNameBytes[name], attributes[name]) + 1
            + AttributesBytes(attributes, names \ {name})

\* Buffer.byteLength(JSON.stringify(request), "utf8"); a member that is undefined is
\* left out.
byteLength(request) ==
  LET names == DOMAIN request.MessageAttributes
  IN 1 + (17 + 2) + 1 + 2 + (AttributesBytes(request.MessageAttributes, names) - 1)
       + MemberBytes(8, request.TopicArn)
       + MemberBytes(7, request.Message)
       + (IF request.MessageGroupId.kind = "undefined" THEN 0
          ELSE MemberBytes(14, request.MessageGroupId))
       + (IF request.MessageDeduplicationId.kind = "undefined" THEN 0
          ELSE MemberBytes(22, request.MessageDeduplicationId))
       + 1

MAX_EVENT_MESSAGE_SIZE == 256 * 1024

\* An error object: its class and its message.
Error(name, text) == [name |-> name, text |-> text]

NoError == Error("none", "")

\* The checks dispatch makes on a FIFO topic.
fifoErrorTransactionIdFirst(msg) ==
  IF isFIFO /\ Falsy(msg.transactionId)
  THEN Error("InvalidFIFOMessageError", "transactionId is required for FIFO messages")
  ELSE IF isFIFO /\ Falsy(msg.groupId)
  THEN Error("InvalidFIFOMessageError", "groupId is required for FIFO messages")
  ELSE NoError

fifoError(msg) ==
  IF isFIFO /\ Falsy(msg.groupId)
  THEN Error("InvalidFIFOMessageError", "groupId is required for FIFO messages")
  ELSE IF isFIFO /\ Falsy(msg.transactionId)
  THEN Error("InvalidFIFOMessageError", "transactionId is required for FIFO messages")
  ELSE NoError

\* The checks at the head of dispatch, in the order of the code.
validationErrorChecksumFirst(msg) ==
  IF isNaN(msg.checksum)
  THEN Error("InvalidEventChecksumError", "checksum is not a number")
  ELSE IF msg.type.kind # "string" \/ msg.type.text \notin Events
  THEN Error("InvalidEventTypeError", "invalid event type")
  ELSE IF Falsy(msg.source)
  THEN Error("InvalidEventSourceError", "event source is required")
  ELSE IF Falsy(msg.message)
  THEN Error("InvalidEventMessageError", "event message is required")
  ELSE fifoError(msg)

validationError(msg) ==
  IF msg.type.kind # "string" \/ msg.type.text \notin Events
  THEN Error("InvalidEventTypeError", "invalid event type")
  ELSE IF isNaN(msg.checksum)
  THEN Error("InvalidEventChecksumError", "checksum is not a number")
  ELSE IF Falsy(msg.source)
  THEN Error("InvalidEventSourceError", "event source is required")
  ELSE IF Falsy(msg.message)
  THEN Error("InvalidEventMessageError", "event message is required")
  ELSE fifoError(msg)

\* What a call of dispatch did: how it ended ("thrown" or "returned"), the error it
\* threw or its promise rejected with, the state of the promise it returned, the
\* request it built, and whether it called the transport's send.
Outcome(how, error, promise, request, send) ==
  [how |-> how, error |-> error, promise |-> promise, request |-> request,
   send |-> send]

NotCalled == Outcome("none", NoError, "none", NoRequest, FALSE)

\* dispatch is not an async function: a throw reaches the caller synchronously.
raiseAsRejection(error) == Outcome("returned", error, "rejected", NoRequest, FALSE)

raise(error) == Outcome("thrown", error, "none", NoRequest, FALSE)

\* Buffer.byteLength(JSON.stringify(eventParams), "utf8") > MAX_EVENT_MESSAGE_SIZE
exceedsLimitAtLimit(size) == size >= MAX_EVENT_MESSAGE_SIZE

exceedsLimit(size) == size > MAX_EVENT_MESSAGE_SIZE

\* if (groupId) eventParams.MessageGroupId = groupId;
\* if (transactionId) eventParams.MessageDeduplicationId = transactionId
withFifoIds(request, msg) ==
  [request EXCEPT
     !.MessageGroupId = IF Falsy(msg.groupId) THEN @ ELSE msg.groupId,
     !.MessageDeduplicationId = IF Falsy(msg.transactionId) THEN @
                                ELSE msg.transactionId]

\* process.env.IGNORE_EVENTS == "true"
ignoreEventsNever == FALSE

ignoreEvents == IGNORE_EVENTS = "true"

\* dispatch(event), up to the call of sns.send.
dispatchIgnoringBeforeValidation(msg) ==
  IF ignoreEvents
  THEN Outcome("returned", NoError, "resolved", withFifoIds(eventParams(msg), msg), FALSE)
  ELSE IF validationError(msg) # NoError THEN raise(validationError(msg))
  ELSE IF ~HasToString(msg.checksum)
  THEN raise(Error("TypeError", "cannot read properties of null"))
  ELSE IF ~Falsy(msg.json) /\ encodeJsonThrows(msg.json)
  THEN raise(Error("InvalidEventJsonError", "event json is invalid"))
  ELSE IF exceedsLimit(byteLength(eventParams(msg)))
  THEN raise(Error("InvalidEventSizeError", "json message exceeded limit of 256KB"))
  ELSE Outcome("returned", NoError, "pending", withFifoIds(eventParams(msg), msg), TRUE)

dispatch(msg) ==
  IF validationError(msg) # NoError THEN raise(validationError(msg))
  ELSE IF ~HasToString(msg.checksum)
  THEN raise(Error("TypeError", "cannot read properties of null"))
  ELSE IF ~Falsy(msg.json) /\ encodeJsonThrows(msg.json)
  THEN raise(Error("InvalidEventJsonError", "event json is invalid"))
  ELSE IF exceedsLimit(byteLength(eventParams(msg)))
  THEN raise(Error("InvalidEventSizeError", "json message exceeded limit of 256KB"))
  ELSE IF ignoreEvents
  THEN Outcome("returned", NoError, "resolved", withFifoIds(eventParams(msg), msg), FALSE)
  ELSE Outcome("returned", NoError, "pending", withFifoIds(eventParams(msg), msg), TRUE)

\* The caller calls dispatch(message).
Dispatch ==
  /\ client = "createPublisher"
  /\ dispatches < MaxDispatches
  /\ dispatches' = dispatches + 1
  /\ dispatched' = dispatch(event)
  /\ sendCalls' = IF dispatch(event).send THEN sendCalls + 1 ELSE sendCalls
  /\ sentRequest' = IF dispatch(event).send THEN dispatch(event).request
                    ELSE sentRequest
  /\ calls' = Append(calls, [IGNORE_EVENTS |-> IGNORE_EVENTS, outcome |-> dispatch(event)])
  /\ UNCHANGED <<client, codecVars, senderVars, legacyVars, transportVars, registryVars, pollVars, pc, task, deleteRequests,
                 outstanding, failedBefore, topic, IGNORE_EVENTS, event, pubsubVars>>

\* The promise of sns.send, which dispatch returned, resolves.
SendResolve ==
  /\ client = "createPublisher"
  /\ dispatched.promise = "pending"
  /\ dispatched' = [dispatched EXCEPT !.promise = "resolved"]
  /\ UNCHANGED <<client, codecVars, senderVars, legacyVars, transportVars, registryVars, pollVars, pc, task, deleteRequests,
                 outstanding, failedBefore, topic, IGNORE_EVENTS, event, dispatches,
                 sendCalls, sentRequest, calls, pubsubVars>>

\* The promise of sns.send rejects.
SendReject ==
  /\ client = "createPublisher"
  /\ dispatched.promise = "pending"
  /\ dispatched' = [dispatched EXCEPT !.promise = "rejected",
                                      !.error = Error("TransportError", "send failed")]
  /\ UNCHANGED <<client, codecVars, senderVars, legacyVars, transportVars, registryVars, pollVars, pc, task, deleteRequests,
                 outstanding, failedBefore, topic, IGNORE_EVENTS, event, dispatches,
                 sendCalls, sentRequest, calls, pubsubVars>>

\* The application changes process.env.IGNORE_EVENTS between two calls of dispatch,
\* which reads it at every call.
SetIgnoreEvents(value) ==
  /\ client = "createPublisher"
  /\ value # IGNORE_EVENTS
  /\ IGNORE_EVENTS' = value
  /\ UNCHANGED <<client, codecVars, senderVars, legacyVars, transportVars, registryVars,
                 pollVars, pc, task, deleteRequests, outstanding, failedBefore, topic,
                 event, dispatched, dispatches, sendCalls, sentRequest, calls, pubsubVars>>

\* The values a caller passes in each field of a Message.
TypeValues == {Str("ORDER_PENDING", 13), Str("NOT_AN_EVENT", 12)}

ChecksumValues ==
  {JsNumber("7", 1), JsNumber("NaN", 3), JsNumber("Infinity", 8),
   JsNumber("-Infinity", 9), JsUndefined, JsNull, Str("12", 2), Str("abc", 3)}

SourceValues == {Str("", 0), Str("svc", 3)}

Optional(value) == {JsUndefined, value}

JsonValues == {JsUndefined, JsObject("{}"), JsObject("cyclic")}

\* How far the serialized request is from MAX_EVENT_MESSAGE_SIZE for a message with
\* a body.
SizeDeltas == -1 .. 1

\* The body that makes the serialized request of msg total bytes long.
BodyOfTotal(msg, total) ==
  Str("body", total - byteLength(eventParams([msg EXCEPT !.message = Str("", 0)])))

EventMessages ==
  LET heads == {EventMessage(type, uri, id, checksum, source, JsUndefined, json,
                             groupId, transactionId) :
                  type \in TypeValues, uri \in Optional(Str("/orders/1", 9)),
                  id \in Optional(Str("1", 1)), checksum \in ChecksumValues,
                  source \in SourceValues, json \in JsonValues,
                  groupId \in Optional(Str("g", 1)),
                  transactionId \in Optional(Str("t", 1))}
  IN heads
       \cup {[msg EXCEPT !.message = Str("", 0)] : msg \in heads}
       \cup {[msg EXCEPT !.message = BodyOfTotal(msg, MAX_EVENT_MESSAGE_SIZE + delta)] :
               msg \in heads, delta \in SizeDeltas}

(***************************************************************************)
(* PubSubClient (gcp/pubsub.ts): initialize and its "message" listener,     *)
(* _cleanup and close.  The subscription delivers messages concurrently;    *)
(* each delivery runs the listener up to its first await.                   *)
(***************************************************************************)
EventNames == {"purchase", "refund"}

PubSubMsgs == 1..MaxPubSubMsgs

NoCleanupError == [name |-> "none", cause |-> "none"]

PubSubClientCleanupError(cause) == [name |-> "PubSubClientCleanupError", cause |-> cause]

\* A message of the subscription.  st is "undelivered", "ignored" (the listener
\* returned at once), "filtered" (excluded by filterEvents), "processing" or "done";
\* onMessage is the promise of the onMessage call; ack and nack count the calls of
\* message.ack() and message.nack().
PubSubMessage(event_name) ==
  [event_name |-> event_name, st |-> "undelivered", onMessage |-> "none",
   ack |-> 0, nack |-> 0]

\* The client after construction: no subscription, the default initializeParams.
PubSubIdle(names) ==
  [initPc |-> "none", subscription |-> FALSE, listeners |-> FALSE, subClose |-> "none",
   isProcessing |-> FALSE, isShuttingDown |-> FALSE,
   shutdownTimeout |-> Num(DEFAULT_SHUTDOWN_TIMEOUT), filterEvents |-> {},
   msg |-> [m \in PubSubMsgs |-> PubSubMessage(names[m])],
   closePc |-> "none", closeError |-> NoCleanupError, cleanup |-> "none",
   attempts |-> 0, attemptCalls |-> 0, attemptPc |-> "none", timer |-> FALSE,
   callbacks |-> 0, pubSubClient |-> "open", unhandled |-> "none"]

\* this.initializeParams.shutdownTimeout ?? 30
shutdownTimeoutOrDefault(p) ==
  IF p.shutdownTimeout.defined THEN p.shutdownTimeout.k ELSE DEFAULT_SHUTDOWN_TIMEOUT

_isValidEvent(value, filterEvents) ==
  IF Cardinality(filterEvents) = 0 THEN TRUE ELSE value \in filterEvents

\* The "message" listener up to its first await; threw says that onMessage threw
\* before it returned a promise.
onMessageListenerWhileShuttingDown(p, m, threw) ==
  IF ~_isValidEvent(p.msg[m].event_name, p.filterEvents)
  THEN [p EXCEPT !.isProcessing = FALSE, !.msg[m].st = "filtered"]
  ELSE IF threw
  THEN [p EXCEPT !.isProcessing = FALSE,
                 !.msg[m] = [@ EXCEPT !.st = "done", !.onMessage = "rejected",
                                      !.nack = @ + 1]]
  ELSE [p EXCEPT !.isProcessing = TRUE,
                 !.msg[m] = [@ EXCEPT !.st = "processing", !.onMessage = "running"]]

onMessageListener(p, m, threw) ==
  IF p.isShuttingDown THEN [p EXCEPT !.msg[m].st = "ignored"]
  ELSE IF ~_isValidEvent(p.msg[m].event_name, p.filterEvents)
  THEN [p EXCEPT !.isProcessing = FALSE, !.msg[m].st = "filtered"]
  ELSE IF threw
  THEN [p EXCEPT !.isProcessing = FALSE,
                 !.msg[m] = [@ EXCEPT !.st = "done", !.onMessage = "rejected",
                                      !.nack = @ + 1]]
  ELSE [p EXCEPT !.isProcessing = TRUE,
                 !.msg[m] = [@ EXCEPT !.st = "processing", !.onMessage = "running"]]

\* The rest of the listener once the promise of onMessage has settled.
onMessageSettledAckAlways(p, m, resolved) ==
  [p EXCEPT !.isProcessing = FALSE,
            !.msg[m] = [@ EXCEPT !.st = "done",
                                 !.onMessage = IF resolved THEN "resolved" ELSE "rejected",
                                 !.ack = @ + 1]]

onMessageSettled(p, m, resolved) ==
  [p EXCEPT !.isProcessing = FALSE,
            !.msg[m] = [@ EXCEPT !.st = "done",
                                 !.onMessage = IF resolved THEN "resolved" ELSE "rejected",
                                 !.ack = IF resolved THEN @ + 1 ELSE @,
                                 !.nack = IF resolved THEN @ ELSE @ + 1]]

\* The promise of one attemptCleanup call settles.  The first call is awaited by
\* _cleanup and so by close: close goes on to pubSubClient.close(), or its catch block
\* wraps the error.  A call made by setTimeout is awaited by nobody: its rejection is
\* an unhandled rejection of the process.
attemptSettled(p, first, error) ==
  IF ~first THEN [p EXCEPT !.unhandled = IF error = "none" THEN @ ELSE error]
  ELSE IF error = "none"
  THEN [p EXCEPT !.closePc = "closingClient", !.pubSubClient = "closing"]
  ELSE [p EXCEPT !.closePc = "rejected", !.closeError = PubSubClientCleanupError(error)]

\* attemptCleanup up to its first await.
attemptCleanupSilentTimeout(p, first) ==
  LET q == [p EXCEPT !.attemptCalls = @ + 1]
  IN IF q.subscription /\ ~q.isProcessing
     THEN [q EXCEPT !.listeners = FALSE, !.subClose = "pending",
                    !.attemptPc = IF first THEN "first" ELSE "retry"]
     ELSE IF ~q.subscription
     THEN attemptSettled([q EXCEPT !.callbacks = @ + 1, !.cleanup = "closed"],
                         first, "none")
     ELSE IF q.attempts < shutdownTimeoutOrDefault(q)
     THEN attemptSettled([q EXCEPT !.attempts = @ + 1, !.timer = TRUE], first, "none")
     ELSE attemptSettled([q EXCEPT !.cleanup = "timedOut"],
                         first, "PubSubClientCleanupTimeoutError")

attemptCleanup(p, first) ==
  LET q == [p EXCEPT !.attemptCalls = @ + 1]
  IN IF q.subscription /\ ~q.isProcessing
     THEN [q EXCEPT !.listeners = FALSE, !.subClose = "pending",
                    !.attemptPc = IF first THEN "first" ELSE "retry"]
     ELSE IF ~q.subscription
     THEN attemptSettled([q EXCEPT !.callbacks = @ + 1, !.cleanup = "closed"],
                         first, "none")
     ELSE IF q.attempts < shutdownTimeoutOrDefault(q)
     THEN attemptSettled([q EXCEPT !.attempts = @ + 1, !.timer = TRUE], first, "none")
     ELSE attemptSettled([q EXCEPT !.callbacks = @ + 1, !.cleanup = "timedOut"],
                         first, "PubSubClientCleanupTimeoutError")

notPubsubVars == <<pollVars, client, publisherVars, codecVars, senderVars, legacyVars,
                   transportVars, registryVars, pc, task, deleteRequests, outstanding,
                   failedBefore>>

\* initialize(params) up to its first await: the parameters are merged, the
\* subscription object is stored, subscription.exists() is called.
Initialize(shutdownTimeout, filterEvents) ==
  /\ client = "PubSubClient"
  /\ pubsub.initPc = "none"
  /\ pubsub' = [pubsub EXCEPT !.initPc = "awaiting", !.subscription = TRUE,
                              !.shutdownTimeout = shutdownTimeout,
                              !.filterEvents = filterEvents]
  /\ UNCHANGED notPubsubVars

\* exists() (and createSubscription) settled: the listeners are attached, or
\* initialize rejects; this.subscription.on throws when close has set the field to null.
InitializeResume(ok) ==
  /\ client = "PubSubClient"
  /\ pubsub.initPc = "awaiting"
  /\ pubsub' = IF ok /\ pubsub.subscription
               THEN [pubsub EXCEPT !.initPc = "done", !.listeners = TRUE]
               ELSE [pubsub EXCEPT !.initPc = "rejected"]
  /\ UNCHANGED notPubsubVars

\* The open subscription emits "message".
Deliver(m, threw) ==
  /\ client = "PubSubClient"
  /\ pubsub.listeners /\ pubsub.subClose = "none"
  /\ pubsub.msg[m].st = "undelivered"
  /\ pubsub' = onMessageListener(pubsub, m, threw)
  /\ UNCHANGED notPubsubVars

OnMessageResolve(m) ==
  /\ client = "PubSubClient"
  /\ pubsub.msg[m].onMessage = "running"
  /\ pubsub' = onMessageSettled(pubsub, m, TRUE)
  /\ UNCHANGED notPubsubVars

OnMessageReject(m) ==
  /\ client = "PubSubClient"
  /\ pubsub.msg[m].onMessage = "running"
  /\ pubsub' = onMessageSettled(pubsub, m, FALSE)
  /\ UNCHANGED notPubsubVars

\* close(callback) up to its first await: _cleanup makes the first attemptCleanup call.
Close ==
  /\ client = "PubSubClient"
  /\ pubsub.closePc = "none"
  /\ pubsub' = attemptCleanup([pubsub EXCEPT !.isShuttingDown = TRUE,
                                             !.closePc = "cleanup",
                                             !.cleanup = "running"], TRUE)
  /\ UNCHANGED notPubsubVars

\* setTimeout(attemptCleanup, 1000) fires.
TimerFires ==
  /\ client = "PubSubClient"
  /\ pubsub.timer
  /\ pubsub' = attemptCleanup([pubsub EXCEPT !.timer = FALSE], FALSE)
  /\ UNCHANGED notPubsubVars

\* subscription.close() resolves: the field is set to null, finally calls the callback.
SubscriptionCloseResolve ==
  /\ client = "PubSubClient"
  /\ pubsub.subClose = "pending"
  /\ pubsub' = attemptSettled([pubsub EXCEPT !.subClose = "resolved",
                                             !.subscription = FALSE,
                                             !.attemptPc = "none",
                                             !.callbacks = @ + 1,
                                             !.cleanup = "closed"],
                              pubsub.attemptPc = "first", "none")
  /\ UNCHANGED notPubsubVars

\* subscription.close() rejects: the catch block throws PubSubClientCleanupError,
\* finally calls the callback.
SubscriptionCloseReject ==
  /\ client = "PubSubClient"
  /\ pubsub.subClose = "pending"
  /\ pubsub' = attemptSettled([pubsub EXCEPT !.subClose = "rejected",
                                             !.attemptPc = "none",
                                             !.callbacks = @ + 1,
                                             !.cleanup = "failed"],
                              pubsub.attemptPc = "first", "PubSubClientCleanupError")
  /\ UNCHANGED notPubsubVars

\* pubSubClient.close() settles: close resolves, or its catch block wraps the error.
PubSubCloseResolve ==
  /\ client = "PubSubClient"
  /\ pubsub.closePc = "closingClient"
  /\ pubsub' = [pubsub EXCEPT !.closePc = "resolved", !.pubSubClient = "closed"]
  /\ UNCHANGED notPubsubVars

PubSubCloseReject ==
  /\ client = "PubSubClient"
  /\ pubsub.closePc = "closingClient"
  /\ pubsub' = [pubsub EXCEPT !.closePc = "rejected", !.pubSubClient = "failed",
                              !.closeError = PubSubClientCleanupError("Error")]
  /\ UNCHANGED notPubsubVars

\* What an application passes as shutdownTimeout and filterEvents.
ShutdownTimeouts == {Undef} \cup {Num(k) : k \in 0..MaxShutdownTimeout}

FilterEvents == {{}, {"purchase"}}

(***************************************************************************)
(* Specification.                                                           *)
(***************************************************************************)
\* The state after construction, with the messages of `present` waiting on the queue.
InitWith(clients, present) ==
  /\ client \in clients
  /\ queue = [m \in MsgIds |-> IF m \in present THEN "visible" ELSE "absent"]
  /\ LET contents == IF client = "SqsQueueClient" THEN SqsRawMessages
                     ELSE ConsumerRawMessages
     IN raw \in {r \in [MsgIds -> contents] :
                   \A m \in MsgIds \ present : r[m] = CHOOSE x \in contents : TRUE}
  /\ messageHandlers = [type \in Types |-> NoHandler]
  /\ firstRegistered = [type \in Types |-> NoHandler]
  /\ registerThrew = FALSE
  /\ pc = "idle"
  /\ task = [m \in MsgIds |-> NoTask]
  /\ deleteRequests = {}
  /\ outstanding = 0
  /\ failedBefore = {}
  /\ n = 0
  /\ t = 0
  /\ receives = 0
  /\ firstEmpty = 0
  /\ pollError = "none"

\* No publisher was constructed.
NoPublisher ==
  /\ topic = StandardTopic
  /\ IGNORE_EVENTS = Undefined
  /\ event = EventMessage(JsUndefined, JsUndefined, JsUndefined, JsUndefined,
                            JsUndefined, JsUndefined, JsUndefined, JsUndefined,
                            JsUndefined)
  /\ dispatched = NotCalled
  /\ dispatches = 0
  /\ sendCalls = 0
  /\ sentRequest = NoRequest
  /\ calls = <<>>

\* The codec and getAttributes were not called.
NoCodec ==
  /\ codecInput = JNull
  /\ codecEncoded = Encoded(FALSE, <<>>)
  /\ codecDecoded = Decoded(FALSE, FALSE, JNull)
  /\ decodeInput = GarbageBody
  /\ decodeOutput = [called |-> FALSE, out |-> Threw]

\* sendMessages was not called.
NoSender ==
  /\ sendArgs = <<>>
  /\ sendPc = "idle"
  /\ sendBatchRequest = <<>>
  /\ sendBatchCalls = 0

\* poll of src/index.js was not called.
NoLegacy == legacy = LegacyIdle

\* No PubSubClient was constructed.
NoPubSub == pubsub = PubSubIdle([m \in PubSubMsgs |-> "purchase"])

Init ==
  /\ InitWith({"SqsQueueClient", "createConsumer"}, MsgIds)
  /\ NoPublisher /\ NoCodec /\ NoSender /\ NoLegacy /\ NoPubSub

SqsNext ==
  \/ \E h \in Handlers : registerMessageHandler(h)
  \/ startPollForMessages
  \/ \E batch \in SUBSET MsgIds : SqsReceiveResolve(batch)
  \/ SqsReceiveFail
  \/ \E m \in MsgIds : SqsHandlerResolve(m)
  \/ \E m \in MsgIds : SqsHandlerReject(m)
  \/ \E m \in MsgIds : SqsDeleteResolve(m)
  \/ \E m \in MsgIds : SqsDeleteReject(m)
  \/ SqsPollOnceSettle

ConsumerNext ==
  \/ \E maxIterations \in 0..MaxIterations : poll(maxIterations)
  \/ \E batch \in SUBSET MsgIds : ConsumerReceiveResolve(batch)
  \/ ConsumerReceiveFail
  \/ \E m \in MsgIds : ConsumerAck(m)
  \/ \E m \in MsgIds : ConsumerAckResolve(m)
  \/ \E m \in MsgIds : ConsumerAckReject(m)
  \/ \E m \in MsgIds : ConsumerHandlerResolve(m)
  \/ \E m \in MsgIds : ConsumerHandlerReject(m)
  \/ ConsumerWaitResolve

QueueNext == \E m \in MsgIds : VisibilityTimeout(m)

Next == SqsNext \/ ConsumerNext \/ QueueNext

Spec == Init /\ [][Next]_vars

(***************************************************************************)
(* The unbounded poll loop of SqsQueueClient under fair scheduling: every   *)
(* transport call and every handler call settles, a settled promise's       *)
(* continuation runs, a visibility timeout elapses, and the queue delivers  *)
(* a message that is visible again and again.                               *)
(***************************************************************************)
Fairness ==
  /\ WF_vars(SqsPollOnceSettle)
  /\ WF_vars(SqsReceiveFail \/ \E batch \in SUBSET MsgIds : SqsReceiveResolve(batch))
  /\ \A m \in MsgIds : WF_vars(SqsHandlerResolve(m) \/ SqsHandlerReject(m))
  /\ \A m \in MsgIds : WF_vars(SqsDeleteResolve(m) \/ SqsDeleteReject(m))
  /\ \A m \in MsgIds : WF_vars(VisibilityTimeout(m))
  /\ \A m \in MsgIds :
       SF_vars(\E batch \in SUBSET MsgIds : m \in batch /\ SqsReceiveResolve(batch))

LoopInit ==
  /\ InitWith({"SqsQueueClient"}, 1..MaxLoopMsgs)
  /\ NoPublisher /\ NoCodec /\ NoSender /\ NoLegacy /\ NoPubSub

LoopNext == SqsNext \/ QueueNext

FairSpec == LoopInit /\ [][LoopNext]_vars /\ Fairness

\* The same loop on a queue that holds every message, so that a receive returns a
\* batch of several messages.
BatchInit ==
  /\ InitWith({"SqsQueueClient"}, MsgIds)
  /\ NoPublisher /\ NoCodec /\ NoSender /\ NoLegacy /\ NoPubSub

BatchFairSpec == BatchInit /\ [][LoopNext]_vars /\ Fairness

(***************************************************************************)
(* createPublisher: a publisher constructed on a standard or a FIFO topic,  *)
(* with the process environment as it is, dispatching one Message.          *)
(***************************************************************************)
PublisherInit ==
  /\ InitWith({"createPublisher"}, {})
  /\ topic \in {StandardTopic, FifoTopic}
  /\ IGNORE_EVENTS \in {"true", Undefined}
  /\ event \in EventMessages
  /\ dispatched = NotCalled
  /\ dispatches = 0
  /\ sendCalls = 0
  /\ sentRequest = NoRequest
  /\ calls = <<>>
  /\ NoCodec /\ NoSender /\ NoLegacy /\ NoPubSub

PublisherNext == Dispatch \/ SendResolve \/ SendReject

PublisherSpec == PublisherInit /\ [][PublisherNext]_vars

\* The same publisher in a process whose environment changes between the calls.
EnvNext ==
  \/ PublisherNext
  \/ \E value \in {"true", "false", Undefined} : SetIgnoreEvents(value)

EnvSpec == PublisherInit /\ [][EnvNext]_vars

(***************************************************************************)
(* A producer and a consumer on one queue: sendMessages of an               *)
(* SqsQueueClient, then its poll loop.                                      *)
(***************************************************************************)
SendInit ==
  /\ InitWith({"SqsQueueClient"}, {})
  /\ NoPublisher /\ NoCodec /\ NoLegacy /\ NoPubSub
  /\ sendArgs \in SendCalls
  /\ sendPc = "idle"
  /\ sendBatchRequest = <<>>
  /\ sendBatchCalls = 0

SendNext ==
  \/ sendMessages
  \/ \E failed \in SUBSET MsgIds : SendBatchResolve(failed)
  \/ SendBatchReject
  \/ SqsNext
  \/ QueueNext

SendSpec == SendInit /\ [][SendNext]_vars

(***************************************************************************)
(* An SqsQueueClient polling a queue that is subscribed to a topic.         *)
(***************************************************************************)
RelayInit ==
  /\ InitWith({"SqsQueueClient"}, {})
  /\ NoPublisher /\ NoCodec /\ NoSender /\ NoLegacy /\ NoPubSub

RelayNext ==
  \/ \E m \in MsgIds, notification \in RelayedRawMessages : SnsDeliver(m, notification)
  \/ SqsNext
  \/ QueueNext

RelaySpec == RelayInit /\ [][RelayNext]_vars

(***************************************************************************)
(* One poll call of src/index.js.                                           *)
(***************************************************************************)
LegacyInit ==
  /\ InitWith({"index.js"}, {})
  /\ NoPublisher /\ NoCodec /\ NoSender /\ NoLegacy /\ NoPubSub

LegacyNext ==
  \/ \E arg \in LegacyArguments : LegacyPollCall(arg)
  \/ \E results \in 0..1 : LegacyReceiveResolve(results)
  \/ LegacyReceiveReject

LegacySpec == LegacyInit /\ [][LegacyNext]_vars

(***************************************************************************)
(* One poll call of a consumer of src/src/index.ts.                         *)
(***************************************************************************)
TsPollInit ==
  /\ client = "index.ts"
  /\ queue = [m \in MsgIds |-> "visible"]
  /\ raw \in [MsgIds -> TsRawMessages]
  /\ messageHandlers = [type \in Types |-> NoHandler]
  /\ firstRegistered = [type \in Types |-> NoHandler]
  /\ registerThrew = FALSE
  /\ pc = "idle"
  /\ task = [m \in MsgIds |-> NoTask]
  /\ deleteRequests = {}
  /\ outstanding = 0
  /\ failedBefore = {}
  /\ n = 0 /\ t = 0 /\ receives = 0 /\ firstEmpty = 0
  /\ pollError = "none"
  /\ NoPublisher /\ NoCodec /\ NoSender /\ NoLegacy /\ NoPubSub

TsPollNext ==
  \/ \E arg \in TsArguments : TsPollCall(arg)
  \/ \E batch \in SUBSET MsgIds : TsReceiveResolve(batch)
  \/ TsReceiveReject
  \/ \E m \in MsgIds, resolved \in BOOLEAN : TsProcessSettle(m, resolved)

TsPollSpec == TsPollInit /\ [][TsPollNext]_vars

(***************************************************************************)
(* mapAttributes of src/src/index.ts on one envelope.                       *)
(***************************************************************************)
TsMapAttributesInit ==
  /\ InitWith({"index.ts"}, {})
  /\ NoPublisher /\ NoSender /\ NoLegacy /\ NoPubSub
  /\ codecInput = JNull
  /\ codecEncoded = Encoded(FALSE, <<>>)
  /\ codecDecoded = Decoded(FALSE, FALSE, JNull)
  /\ decodeInput \in TsEnvelopes
  /\ decodeOutput = [called |-> FALSE, out |-> Threw]

TsMapAttributesNext == TsMapAttributes

TsMapAttributesSpec == TsMapAttributesInit /\ [][TsMapAttributesNext]_vars

(***************************************************************************)
(* createConsumer.getAttributes on one body.                                *)
(***************************************************************************)
GetAttributesInit ==
  /\ InitWith({"createConsumer"}, {})
  /\ NoPublisher /\ NoSender /\ NoLegacy /\ NoPubSub
  /\ codecInput = JNull
  /\ codecEncoded = Encoded(FALSE, <<>>)
  /\ codecDecoded = Decoded(FALSE, FALSE, JNull)
  /\ decodeInput \in ConsumerBodies
  /\ decodeOutput = [called |-> FALSE, out |-> Threw]

GetAttributesNext == GetAttributes

GetAttributesSpec == GetAttributesInit /\ [][GetAttributesNext]_vars

(***************************************************************************)
(* The attribute codec: one value is encoded and the result decoded.        *)
(***************************************************************************)
CodecInit ==
  /\ InitWith({"base64"}, {})
  /\ NoPublisher /\ NoSender /\ NoLegacy /\ NoPubSub
  /\ codecInput \in JsonInputs
  /\ codecEncoded = Encoded(FALSE, <<>>)
  /\ codecDecoded = Decoded(FALSE, FALSE, JNull)
  /\ decodeInput = GarbageBody
  /\ decodeOutput = [called |-> FALSE, out |-> Threw]

CodecNext == EncodeJson \/ DecodeJson

CodecSpec == CodecInit /\ [][CodecNext]_vars

(***************************************************************************)
(* A PubSubClient: initialize, concurrent deliveries, one close call.       *)
(***************************************************************************)
PubSubInit ==
  /\ InitWith({"PubSubClient"}, {})
  /\ NoPublisher /\ NoCodec /\ NoSender /\ NoLegacy
  /\ pubsub \in {PubSubIdle(names) : names \in [PubSubMsgs -> EventNames]}

PubSubNext ==
  \/ \E shutdownTimeout \in ShutdownTimeouts, filterEvents \in FilterEvents :
       Initialize(shutdownTimeout, filterEvents)
  \/ \E ok \in BOOLEAN : InitializeResume(ok)
  \/ \E m \in PubSubMsgs, threw \in BOOLEAN : Deliver(m, threw)
  \/ \E m \in PubSubMsgs : OnMessageResolve(m)
  \/ \E m \in PubSubMsgs : OnMessageReject(m)
  \/ Close
  \/ TimerFires
  \/ SubscriptionCloseResolve
  \/ SubscriptionCloseReject
  \/ PubSubCloseResolve
  \/ PubSubCloseReject

PubSubSpec == PubSubInit /\ [][PubSubNext]_vars

\* The timer fires and the transport's close calls settle; nothing makes onMessage
\* settle.
PubSubFairness ==
  /\ WF_vars(TimerFires)
  /\ WF_vars(SubscriptionCloseResolve \/ SubscriptionCloseReject)
  /\ WF_vars(PubSubCloseResolve \/ PubSubCloseReject)

PubSubFairSpec == PubSubInit /\ [][PubSubNext]_vars /\ PubSubFairness

(***************************************************************************)
(* Properties.                                                              *)
(***************************************************************************)
Sqs == client = "SqsQueueClient"

Consumer == client = "createConsumer"

\* Every promise of the batch has settled and Promise.all is about to resolve.
SqsJoin == Sqs /\ pc = "processing" /\ AllSettled

\* The message's own processing fails: it does not decode, no handler was found for
\* it, it does not validate, or its handler rejected.
OwnFailure(m) ==
  LET mapped == mapSqsMessageToInternalMessage(raw[m])
  IN \/ mapped.threw
     \/ task[m].outcome = "NoHandlerFound"
     \/ \A h \in Handlers : ~validateMessage(h, mapped.msg)
     \/ task[m].hs = "rejected"

NotDeleted(m) ==
  /\ task[m].del = "none"
  /\ ReceiptHandle(m) \notin deleteRequests
  /\ queue[m] # "deleted"

\* C1: when pollOnceForMessages has processed a batch, every message whose own
\* processing failed (decode error, no handler, validation failure, handler rejection)
\* is not deleted, and every other message of the batch, whatever happened to its
\* siblings, was passed to its handler and had its delete issued after the handler
\* resolved (and is gone from the queue once the transport accepted the delete).
C1_BatchFaultIsolation ==
  SqsJoin =>
    \A m \in Batch :
      IF OwnFailure(m)
      THEN task[m].outcome \in Failures /\ NotDeleted(m)
      ELSE /\ task[m].called # {}
           /\ task[m].hs = "resolved"
           /\ task[m].del \in {"ok", "failed"}
           /\ ReceiptHandle(m) \in deleteRequests
           /\ task[m].del = "ok" => queue[m] = "deleted"

\* A batch of two: one message failed and is still on the queue, its sibling was
\* handled and deleted.
C1_Witness ==
  /\ SqsJoin
  /\ \E m1, m2 \in Batch :
       /\ OwnFailure(m1) /\ queue[m1] # "deleted"
       /\ ~OwnFailure(m2) /\ task[m2].del = "ok" /\ queue[m2] = "deleted"

\* C2: a transport delete has been issued for a message only when handleMessage for
\* that same message has resolved: never while the handler is still running, never
\* after it failed, never for a message no handler was called for.
C2_DeleteOnlyAfterHandlerResolved ==
  Sqs =>
    /\ \A m \in MsgIds : task[m].del # "none" => task[m].hs = "resolved"
    /\ deleteRequests \subseteq {ReceiptHandle(m) : m \in {k \in MsgIds : task[k].hs = "resolved"}}

\* A delete is in flight for a handled message while a sibling's handler still runs.
C2_Witness ==
  /\ Sqs
  /\ \E m1, m2 \in MsgIds :
       /\ task[m1].del = "issued" /\ task[m1].hs = "resolved"
       /\ task[m2].hs = "running"

Min(a, b) == IF a <= b THEN a ELSE b

\* C3: a settled poll(handler, {maxIterations: n}) has resolved after exactly
\* min(n, k) receives, k the index of the first receive that returned an empty batch
\* (exactly n when no batch was empty).
C3_ReceivesExactlyMinNK ==
  Consumer /\ pc \in {"resolved", "rejected"} =>
    /\ pc = "resolved"
    /\ receives = IF firstEmpty = 0 THEN n ELSE Min(n, firstEmpty)

\* C4: the promise of poll never rejects with a per-message failure (a body that does
\* not decode, a processMessage that throws or rejects).
C4_PollResolvesDespiteMessageFailure ==
  Consumer => pollError \notin {"DecodeError", "HandlerRejected"}

\* m is handed to the engine by the receive of this step.
Received(m) == task[m].st = "none" /\ task'[m].st # "none"

\* C5: a message whose processing fails stays on the queue; it is received only when
\* it is visible, and each delivery processes it afresh; it leaves the queue only
\* through a delete that follows a resolved handler, and once deleted it is never
\* received again; under repeated polling a failed message that is still on the queue
\* is received again.
C5_AtLeastOnceRedelivery ==
  /\ [][Sqs =>
          \A m \in MsgIds :
            /\ (task'[m].outcome \in Failures /\ task[m].outcome \notin Failures)
                 => queue'[m] \in {"inflight", "visible"}
            /\ Received(m)
                 => queue[m] = "visible" /\ queue'[m] = "inflight"
                    /\ task'[m] = processSqsMessage(m)
            /\ queue[m] = "deleted" => queue'[m] = "deleted" /\ ~Received(m)
            /\ (queue'[m] = "deleted" /\ queue[m] # "deleted") => task[m].hs = "resolved"
      ]_vars
  /\ \A m \in MsgIds :
       [](Sqs /\ m \in failedBefore /\ queue[m] # "deleted" /\ task[m].st = "none"
            => <>(task[m].st # "none"))

\* A message that failed in an earlier delivery was redelivered, handled again and
\* deleted.
C5_Witness ==
  /\ Sqs
  /\ \E m \in failedBefore : task[m].del = "ok" /\ queue[m] = "deleted"

\* C32: when the transport's deleteMessage fails after a handler resolved, the failure is
\* caught inside deleteSqsMessage: the message's promise resolves without a failure, the
\* other promises of the batch are left as they are, pollOnceForMessages does not take
\* its catch block and resolves; the message stays on the queue, and under repeated
\* polling it is received again and its handler is called again.
C32_DeleteFailureIsCaught ==
  /\ [][Sqs =>
          \A m \in MsgIds :
            /\ (task[m].st = "deleting" /\ task'[m].del = "failed")
                 => /\ task'[m].st = "settled" /\ task'[m].outcome \notin Failures
                    /\ task[m].hs = "resolved" /\ task'[m].hs = "resolved"
                    /\ queue'[m] = queue[m] /\ queue[m] \in {"inflight", "visible"}
                    /\ pc' = "processing"
                    /\ \A k \in MsgIds \ {m} : task'[k] = task[k] /\ queue'[k] = queue[k]
            /\ (task[m].del = "failed" /\ pc = "processing" /\ pc' # "processing")
                 => pc' = "receiving"
            /\ (task[m].del = "failed" /\ queue'[m] # queue[m]) => queue'[m] = "visible"
      ]_vars
  /\ \A m \in MsgIds :
       [](Sqs /\ task[m].del = "failed" => <>(task[m].del = "none" /\ task[m].hs = "running"))

\* The delete of a message whose handler resolved has failed while another message of
\* the batch is still with its handler.
C32_Witness ==
  /\ Sqs /\ pc = "processing"
  /\ \E m, k \in MsgIds :
       /\ task[m].del = "failed" /\ task[m].st = "settled"
       /\ k # m /\ task[k].st = "handling"

\* C6: for each received message at most one handler's handleMessage is called: the
\* handler registered for the message's decoded type, after its validateMessage
\* returned true.  With no handler registered for the type nothing is validated or
\* called and the message is not deleted; when validateMessage returns false
\* handleMessage is not called and the message is not deleted.
C6_DispatchToRegisteredValidatedHandler ==
  Sqs =>
    \A m \in Batch :
      LET mapped == mapSqsMessageToInternalMessage(raw[m])
          type == mapped.msg.type
      IN /\ Cardinality(task[m].called) <= 1
         /\ \A h \in task[m].called :
              /\ ~mapped.threw
              /\ HandlerType(h) = type
              /\ messageHandlers[type] = h
              /\ h \in task[m].validatedBy
              /\ validateMessage(h, mapped.msg)
         /\ task[m].outcome = "NoHandlerFound"
              => task[m].validatedBy = {} /\ task[m].called = {} /\ NotDeleted(m)
         /\ task[m].outcome = "InvalidMessage" => task[m].called = {} /\ NotDeleted(m)
         /\ (~mapped.threw /\ \A h \in Handlers : messageHandlers[HandlerType(h)] = h
                                                    => HandlerType(h) # type)
              => task[m].outcome = "NoHandlerFound"
         /\ (~mapped.threw /\ \A h \in Handlers : ~validateMessage(h, mapped.msg))
              => task[m].called = {}

\* One batch with a handled message, and a message that failed validation.
C6_Witness ==
  /\ Sqs
  /\ \E m1, m2 \in Batch :
       /\ task[m1].called # {} /\ task[m1].hs = "resolved"
       /\ task[m2].outcome = "InvalidMessage"

\* C7: the registry holds, per type, the first handler registered for it: a later
\* registration for the same type throws and changes nothing, and dispatch uses the
\* first handler.
C7_FirstHandlerStays ==
  Sqs =>
    /\ \A type \in Types :
         /\ messageHandlers[type] = firstRegistered[type]
         /\ messageHandlers[type] # NoHandler => HandlerType(messageHandlers[type]) = type
    /\ registerThrew => \E type \in Types : messageHandlers[type] # NoHandler
    /\ \A m \in Batch : \A h \in task[m].called : h = firstRegistered[HandlerType(h)]

\* A duplicate registration threw and the first handler is the one dispatching.
C7_Witness ==
  /\ Sqs
  /\ registerThrew
  /\ messageHandlers["A"] = "h1"
  /\ \E m \in Batch : task[m].called = {"h1"}

\* C8: in createConsumer.poll a message leaves the queue only through the ack its own
\* handler invoked, and a transport delete is requested only in a step where a running
\* handler invokes its ack, for that message's own receipt handle.
C8_DeleteOnlyByOwnAck ==
  [][Consumer =>
       /\ \A m \in MsgIds :
            (queue'[m] = "deleted" /\ queue[m] # "deleted")
              => task[m].del = "issued" /\ task'[m].del = "ok"
       /\ (deleteRequests' # deleteRequests /\ deleteRequests' # {})
            => \E k \in MsgIds :
                 /\ task[k].hs = "running" /\ task[k].del = "none"
                 /\ task'[k].del = "issued"
                 /\ deleteRequests' = deleteRequests \cup {ReceiptHandle(k)}
  ]_vars

\* One message was acked and deleted; its sibling, not acked, is still on the queue.
C8_Witness ==
  /\ Consumer
  /\ \E m, k \in Batch :
       /\ task[m].del = "ok" /\ queue[m] = "deleted"
       /\ task[k].del = "none" /\ queue[k] # "deleted"

\* C9: a receive is issued only when no receive is outstanding and every handler
\* call and every delete of the previous batch has settled.
C9_SequentialBatches ==
  [][outstanding' > outstanding => outstanding = 0 /\ AllSettled]_vars

\* The receive of the second batch is outstanding after a first batch was acked.
C9_Witness ==
  /\ Consumer
  /\ pc = "receiving" /\ receives = 2 /\ outstanding = 1
  /\ \E m \in MsgIds : queue[m] = "deleted"

\* C10: startPollForMessages never returns and never rejects, and whatever receive
\* failures, decode errors, missing handlers, validation failures, handler rejections
\* and delete failures occur, every pollOnceForMessages call settles and the loop
\* issues another receive.
C10_PollLoopNeverExits ==
  /\ [](Sqs => pc \in {"idle", "receiving", "processing", "threw"})
  /\ [](Sqs /\ pc \in {"processing", "threw"} => <>(pc = "receiving"))

\* The loop is receiving again after a failed receive, a failed message and a failed
\* delete.
C10_Witness ==
  /\ Sqs /\ pc = "receiving"
  /\ failedBefore # {}
  /\ \E m \in MsgIds : queue[m] = "deleted"

\* C11: in createConsumer.poll a failing transport receive is treated as an empty
\* batch: the promise of poll does not reject with the transport error.
C11_ReceiveFailureTreatedAsEmptyBatch ==
  Consumer => pollError # "TransportError"

\* The message group the messages of the queue were sent with: one partition.
MessageGroupId(m) == "123"

\* C12: for two messages of one message group received in one batch, the handler of
\* the later one has not been called, and the later one has no delete issued, unless
\* the earlier one has been handled and deleted.
C12_PartitionOrderKept ==
  Sqs =>
    \A m1, m2 \in Batch :
      (m1 < m2 /\ MessageGroupId(m1) = MessageGroupId(m2)
         /\ (task[m2].called # {} \/ task[m2].del # "none"))
        => task[m1].hs = "resolved" /\ task[m1].del = "ok"

Publisher == client = "createPublisher"

ValidationErrors ==
  {"InvalidEventTypeError", "InvalidEventChecksumError", "InvalidEventSourceError",
   "InvalidEventMessageError", "InvalidFIFOMessageError", "InvalidEventJsonError",
   "InvalidEventSizeError"}

\* C13: whenever dispatch raises one of the validation errors it has thrown it to its
\* caller, it returned no promise, and the transport's send was not called.
C13_ValidationBeforeIO ==
  Publisher /\ dispatched.error.name \in ValidationErrors =>
    /\ dispatched.how = "thrown"
    /\ dispatched.promise = "none"
    /\ ~dispatched.send
    /\ sendCalls = 0
    /\ sentRequest = NoRequest

\* dispatch threw the error of its last check, the size check, and nothing was sent.
C13_Witness ==
  /\ Publisher
  /\ dispatched.how = "thrown"
  /\ dispatched.error.name = "InvalidEventSizeError"
  /\ sendCalls = 0

\* C14: dispatch with a type outside Events throws InvalidEventTypeError, whatever the
\* other fields are and whether or not the topic is FIFO.
C14_InvalidTypeFirst ==
  Publisher /\ dispatches > 0 /\ event.type.text \notin Events =>
    /\ dispatched.how = "thrown"
    /\ dispatched.error.name = "InvalidEventTypeError"

\* An invalid type together with an invalid checksum, no source, no message and, on a
\* FIFO topic, no groupId: the error is the type error.
C14_Witness ==
  /\ Publisher /\ isFIFO
  /\ event.type.text \notin Events
  /\ isNaN(event.checksum) /\ Falsy(event.source) /\ Falsy(event.message)
  /\ Falsy(event.groupId)
  /\ dispatched.error.name = "InvalidEventTypeError"

\* The message passes the type, checksum, source and message checks.
PassesHeadChecks(msg) ==
  /\ msg.type.text \in Events
  /\ ~isNaN(msg.checksum)
  /\ ~Falsy(msg.source)
  /\ ~Falsy(msg.message)

\* Nothing after the FIFO checks stops the message: its checksum can be stringified,
\* its json can be encoded and the serialized request is within the limit.
PassesTailChecks(msg) ==
  /\ HasToString(msg.checksum)
  /\ Falsy(msg.json) \/ msg.json.text # "cyclic"
  /\ byteLength(eventParams(msg)) <= 262144

\* C15: on a FIFO topic a message that passes the type, checksum, source and message
\* checks is refused with 'groupId is required for FIFO messages' when groupId is
\* missing, with 'transactionId is required for FIFO messages' when groupId is present
\* and transactionId is missing; with both present and every other field valid the
\* request carries MessageGroupId = groupId and MessageDeduplicationId = transactionId
\* and is handed to the transport (when IGNORE_EVENTS is 'true' dispatch resolves
\* instead of sending it).
C15_FifoRequiresGroupAndTransaction ==
  Publisher /\ isFIFO /\ dispatches > 0 /\ PassesHeadChecks(event) =>
    /\ Falsy(event.groupId) =>
         /\ dispatched.how = "thrown"
         /\ dispatched.error
              = Error("InvalidFIFOMessageError", "groupId is required for FIFO messages")
    /\ ~Falsy(event.groupId) /\ Falsy(event.transactionId) =>
         /\ dispatched.how = "thrown"
         /\ dispatched.error
              = Error("InvalidFIFOMessageError",
                      "transactionId is required for FIFO messages")
    /\ ~Falsy(event.groupId) /\ ~Falsy(event.transactionId) /\ PassesTailChecks(event) =>
         /\ dispatched.how = "returned"
         /\ dispatched.request.MessageGroupId = event.groupId
         /\ dispatched.request.MessageDeduplicationId = event.transactionId
         /\ IGNORE_EVENTS # "true" =>
              /\ dispatched.send
              /\ sendCalls = dispatches
              /\ sentRequest = dispatched.request

\* A FIFO message with groupId and transactionId reached the transport.
C15_Witness ==
  /\ Publisher /\ isFIFO
  /\ sendCalls > 0
  /\ sentRequest.MessageGroupId = Str("g", 1)
  /\ sentRequest.MessageDeduplicationId = Str("t", 1)

\* C16: on a topic that is not FIFO a request dispatch built carries neither
\* MessageGroupId nor MessageDeduplicationId, and groupId and transactionId do not
\* make dispatch fail.
C16_FifoIdsIgnoredOnStandardTopic ==
  Publisher /\ ~isFIFO /\ dispatches > 0 =>
    /\ dispatched.error.name # "InvalidFIFOMessageError"
    /\ dispatched.how = "returned" =>
         /\ dispatched.request.MessageGroupId = JsUndefined
         /\ dispatched.request.MessageDeduplicationId = JsUndefined

C18_SizeCeilingBoundary ==
  Publisher /\ dispatches > 0 /\ validationError(event) = NoError
    /\ HasToString(event.checksum) /\ (Falsy(event.json) \/ event.json.text # "cyclic") =>
      /\ dispatched.error.name = "InvalidEventSizeError"
           <=> byteLength(eventParams(event)) > 262144
      /\ byteLength(eventParams(event)) <= 262144 => dispatched.how = "returned"

\* A request of exactly 262144 bytes was accepted and sent.
C18_Witness ==
  /\ Publisher
  /\ byteLength(eventParams(event)) = 262144
  /\ dispatched.send /\ sendCalls > 0

\* C19: every request handed to the transport is at most 262144 bytes long as sent.
C19_SentRequestWithinLimit ==
  Publisher /\ sendCalls > 0 => byteLength(sentRequest) <= 262144

\* A finite number.
IsFiniteNumber(v) ==
  v.kind = "number" /\ v.text \notin {"NaN", "Infinity", "-Infinity"}

\* C20: dispatch with a valid type throws InvalidEventChecksumError for every checksum
\* that is not a finite number.
C20_NonFiniteChecksumRejected ==
  Publisher /\ dispatches > 0 /\ event.type.text \in Events
    /\ ~IsFiniteNumber(event.checksum) =>
      /\ dispatched.how = "thrown"
      /\ dispatched.error.name = "InvalidEventChecksumError"

\* C21: decodeJson(encodeJson(v)) returns v, for every JSON-representable value v.
C21_CodecRoundTrip ==
  client = "base64" /\ codecDecoded.called =>
    ~codecDecoded.threw /\ codecDecoded.value = codecInput

\* An object holding an array with a string that needs escaping and a two-byte
\* character came back.
C21_Witness ==
  /\ client = "base64" /\ codecDecoded.called
  /\ codecInput = JObject(<<(<<"k">>)>>,
                          <<JArray(<<JString(<<"a", "\"", "\\">>), JString(<<"U+00E9">>)>>)>>)
  /\ codecDecoded.value = codecInput

\* The message the poll loop hands to validateMessage and handleMessage for message m.
Handed(m) == mapSqsMessageToInternalMessage(raw[m]).msg

WasValidated(m) ==
  task[m].st # "none" /\ task[m].outcome \notin {"DecodeError", "NoHandlerFound"}

Sent(m) == sendPc # "idle" /\ m <= Len(sendArgs) /\ queue[m] # "absent"

\* C22: a message sent with sendMessages and then received is handed to
\* validateMessage and handleMessage with the type, the body and the attributes
\* (together with type) it was sent with.
C22_DirectRoundTrip ==
  \A m \in MsgIds :
    Sent(m) /\ WasValidated(m) =>
      /\ Handed(m).type = sendArgs[m].type
      /\ Handed(m).body = [payload |-> StringOf(Member(sendArgs[m].body, PayloadChars))]
      /\ Handed(m).attributes =
           Spread(sendArgs[m].attributes,
                  [key \in {"type"} |-> Value("string", sendArgs[m].type)])

\* C25: a raw message that carries native message attributes is decoded in the
\* direct-queue shape: type and attributes from the native attributes, body from the
\* raw body.
C25_NativeAttributesMeanDirectShape ==
  \A m \in MsgIds :
    /\ client = "SqsQueueClient"
    /\ WasValidated(m)
    /\ DOMAIN raw[m].MessageAttributes # {}
    => /\ Handed(m).type = raw[m].MessageAttributes["type"].StringValue
       /\ DOMAIN Handed(m).attributes = DOMAIN raw[m].MessageAttributes
       /\ Handed(m).body = [payload |-> raw[m].Body.payload]

\* C23: getAttributes returns the placeholder for an empty body, else the first
\* record of a body with Records, else mapAttributes(body) for a body with
\* MessageAttributes, else the placeholder, without raising an error.
C23_GetAttributesPriorityOrder ==
  decodeOutput.called =>
    IF decodeInput.empty THEN decodeOutput.out = Returned(Placeholder)
    ELSE IF decodeInput.parses /\ decodeInput.Records # Undefined
    THEN decodeOutput.out =
           Returned(ConsumerMessage(Undefined, Undefined, Undefined, Undefined,
                                    decodeInput.Records))
    ELSE IF decodeInput.parses /\ decodeInput.hasAttributes
    THEN decodeOutput.out = mapAttributes(decodeInput)
    ELSE decodeOutput.out = Returned(Placeholder)

\* getAttributes returned the message of a notification envelope.
EnvelopeDecoded ==
  /\ decodeOutput.called /\ ~decodeOutput.out.threw
  /\ decodeInput.parses /\ decodeInput.Records = Undefined /\ decodeInput.hasAttributes

\* C24: mapAttributes takes type and source from the nested attributes' Value,
\* checksum as the number of the Value, message from the envelope's Message, json as
\* the decoded object, and sets id, uri, transactionId and groupId exactly when the
\* attribute of that name is there.
C24_EnvelopeDecoding ==
  EnvelopeDecoded =>
    LET msg == decodeOutput.out.msg
        attrs == decodeInput.MessageAttributes
    IN /\ msg.type = "ORDER_PENDING" /\ msg.source = "svc" /\ msg.checksum = "1"
       /\ msg.message = "order 1 is pending"
       /\ DOMAIN msg \cap AttributeNames
            = {"type", "source", "checksum"} \cup DOMAIN attrs
       /\ "json" \in DOMAIN msg => msg.json = EncodedObject
       /\ \A k \in {"id", "uri", "transactionId", "groupId"} \cap DOMAIN msg :
            msg[k] = attrs[k].Value

\* An envelope with all eight attributes was decoded.
C24_Witness ==
  /\ EnvelopeDecoded
  /\ DOMAIN decodeInput.MessageAttributes = AttributeNames
  /\ decodeOutput.out.msg.json = EncodedObject
  /\ decodeOutput.out.msg.groupId = "g1"

\* The foo attribute nested in the notification that message m relays.
RelayedFoo(m) == raw[m].Body.MessageAttributes["foo"]

Relayed(m) ==
  /\ client = "SqsQueueClient" /\ queue[m] # "absent"
  /\ raw[m].MessageAttributes = EmptyAttrs /\ raw[m].Body.Type = "Notification"

\* C26: in the notification-relay shape a nested attribute of Type String decodes to
\* its Value, one of Type Number to the number of its Value, one of Type Binary to an
\* empty object; with any other Type the message is not handled and not deleted.
C26_RelayShapeAttributes ==
  \A m \in MsgIds :
    Relayed(m) =>
      /\ task[m].st # "none" =>
           CASE RelayedFoo(m).Type = "String" ->
                  Handed(m).attributes["foo"] = Value("string", "bar")
             [] RelayedFoo(m).Type = "Number" ->
                  Handed(m).attributes["foo"] = Value("number", "1")
             [] RelayedFoo(m).Type = "Binary" ->
                  Handed(m).attributes["foo"] = Value("object", Undefined)
             [] OTHER ->
                  /\ task[m].outcome = "DecodeError"
                  /\ task[m].called = {} /\ task[m].validatedBy = {}
                  /\ task[m].del = "none"
      /\ RelayedFoo(m).Type \notin {"String", "Number", "Binary"} => queue[m] # "deleted"

\* One batch held a notification with a Binary attribute, which a handler was called
\* with, and one with an attribute of an unknown type, which failed.
C26_Witness ==
  \E m, k \in MsgIds :
    /\ Relayed(m) /\ Relayed(k)
    /\ RelayedFoo(m).Type = "Binary" /\ task[m].called # {}
    /\ Handed(m).attributes["foo"] = Value("object", Undefined)
    /\ RelayedFoo(k).Type = "String.Array" /\ task[k].outcome = "DecodeError"

\* The attribute map of the request dispatch built.
BuiltAttributes == dispatched.request.MessageAttributes

Given(v) == v.kind # "undefined"

BatchSent == client = "SqsQueueClient" /\ sendBatchCalls > 0

\* C28: each entry's wire attribute type is the message's own type when that is not
\* empty, whatever attributes.type says; every other attribute is sent as the value
\* it has, and the body as the JSON text of message.body.
C28_TypeOverridesAttribute ==
  BatchSent =>
    \A i \in 1..Len(sendArgs) :
      LET sent == sendArgs[i]
          wire == sendBatchRequest[i].MessageAttributes
      IN /\ sent.type # "" => "type" \in DOMAIN wire /\ wire["type"] = StringAttr(sent.type)
         /\ DOMAIN wire \ {"type"} = DOMAIN sent.attributes \ {"type"}
         /\ \A key \in DOMAIN wire \ {"type"} :
              mapSqsAttributeToRecord(wire[key]) = [threw |-> FALSE, v |-> sent.attributes[key]]
         /\ parse(sendBatchRequest[i].MessageBody) = Parsed(sent.body, Len(sendBatchRequest[i].MessageBody) + 1)

\* A message of type B whose attributes say type A was sent with the wire type B.
C28_Witness ==
  /\ BatchSent
  /\ sendArgs[1].type = "B" /\ sendArgs[1].attributes["type"] = Value("string", "A")
  /\ sendBatchRequest[1].MessageAttributes["type"].StringValue = "B"

\* C29: a call with more than 10 messages rejects without calling the transport; a
\* call whose batch has a failed entry rejects; a call that resolves had every entry
\* accepted.
C29_SendMessagesOutcome ==
  client = "SqsQueueClient" /\ sendPc # "idle" =>
    /\ Len(sendArgs) > 10 =>
         /\ sendPc = "rejected" /\ sendBatchCalls = 0
         /\ \A m \in MsgIds : queue[m] = "absent"
    /\ sendPc \in {"resolved", "rejected"}
         /\ (\E i \in 1..Len(sendArgs) : i \in MsgIds /\ queue[i] = "absent")
         => sendPc = "rejected"
    /\ sendPc = "resolved" => \A i \in 1..Len(sendArgs) : queue[i] # "absent"

\* Of a batch of two the transport accepted the first entry and failed the second:
\* sendMessages rejected.
C29_Witness ==
  /\ client = "SqsQueueClient" /\ sendPc = "rejected" /\ sendBatchCalls = 1
  /\ Len(sendArgs) = 2 /\ queue[1] # "absent" /\ queue[2] = "absent"

\* C30: one poll call of src/index.js with {maxNumberOfMessages: m, maxIterations: n}
\* issues at most n receive calls, and every one of them asks for m messages.
C30_BudgetKeptAcrossIterations ==
  client = "index.js" /\ legacy.pc # "idle" /\ legacy.options.kind = "object" =>
    /\ Len(legacy.requested) <= legacy.options.maxIterations.k
    /\ \A i \in 1..Len(legacy.requested) :
         legacy.requested[i] = legacy.options.maxNumberOfMessages

\* C40: mapAttributes of src/src/index.ts does not fail when type, source and checksum
\* are there, and each of id, uri, json, transactionId and groupId is in the result
\* exactly when the envelope has the attribute of that name.
C40_OptionalFieldsIndependent ==
  /\ client = "index.ts" /\ decodeOutput.called
  /\ {"type", "source", "checksum"} \subseteq DOMAIN decodeInput.MessageAttributes
  => /\ ~decodeOutput.out.threw
     /\ \A k \in {"id", "uri", "json", "transactionId", "groupId"} :
          k \in DOMAIN decodeOutput.out.msg <=> k \in DOMAIN decodeInput.MessageAttributes

\* C31: consumer.poll(processMessage, {maxIterations: n}) of src/src/index.ts with
\* n >= 1, or with no params, issues at least one receive call before it settles, and
\* processMessage is invoked for every message of a non-empty batch.
C31_PollReceivesAtLeastOnce ==
  /\ client = "index.ts" /\ legacy.pc \in {"resolved", "rejected"}
  /\ ~legacy.options.maxIterations.defined \/ legacy.options.maxIterations.k >= 1
  => Len(legacy.requested) >= 1

PubSubCase == client = "PubSubClient"

\* C33: _cleanup removes the listeners and closes the subscription only in a state
\* where no onMessage call is still in flight.
C33_NoTeardownWhileProcessing ==
  [][PubSubCase /\ pubsub.subClose = "none" /\ pubsub'.subClose = "pending"
       => \A m \in PubSubMsgs : pubsub.msg[m].onMessage # "running"]_vars

\* C34: the PubSub client is closed, and the promise of close() settles, only after
\* the subscription has been closed or the cleanup has failed or timed out.
C34_CloseInOrder ==
  PubSubCase
    /\ (pubsub.pubSubClient # "open" \/ pubsub.closePc \in {"resolved", "rejected"})
    => pubsub.cleanup \in {"closed", "failed", "timedOut"}

\* C35: after close(callback) the callback is called exactly once, after at most
\* shutdownTimeout + 1 calls of attemptCleanup: never twice, and under fair scheduling
\* of the timer and of the transport it is called, whether or not onMessage settles.
C35_CallbackExactlyOnce ==
  /\ [](PubSubCase => /\ pubsub.callbacks <= 1
                      /\ pubsub.attemptCalls <= shutdownTimeoutOrDefault(pubsub) + 1
                      /\ pubsub.closePc = "none" => pubsub.callbacks = 0)
  /\ (PubSubCase /\ pubsub.closePc # "none") ~> (pubsub.callbacks = 1)

\* The cleanup timed out while a message was still being processed: shutdownTimeout
\* retries were made and the callback was called.
C35_Witness ==
  /\ PubSubCase
  /\ pubsub.cleanup = "timedOut" /\ pubsub.callbacks = 1
  /\ pubsub.attemptCalls = shutdownTimeoutOrDefault(pubsub) + 1
  /\ pubsub.attemptCalls >= 2
  /\ \E m \in PubSubMsgs : pubsub.msg[m].onMessage = "running"

\* C36: when the cleanup times out or closing the subscription fails, the promise of
\* close() rejects with a PubSubClientCleanupError that wraps the error, and no error
\* is raised outside the close() call chain.
C36_CleanupErrorReported ==
  PubSubCase
    => /\ pubsub.unhandled = "none"
       /\ pubsub.cleanup = "timedOut"
            => /\ pubsub.closePc = "rejected"
               /\ pubsub.closeError
                    = PubSubClientCleanupError("PubSubClientCleanupTimeoutError")
       /\ pubsub.cleanup = "failed"
            => /\ pubsub.closePc = "rejected"
               /\ pubsub.closeError = PubSubClientCleanupError("PubSubClientCleanupError")

\* C37: a message delivered after close() was called is not processed: onMessage is not
\* called for it and it is neither acked nor nacked.
C37_NoProcessingAfterClose ==
  /\ [][PubSubCase =>
          \A m \in PubSubMsgs :
            pubsub.closePc # "none" /\ pubsub.msg[m].st = "undelivered"
              => /\ pubsub'.msg[m].st \in {"undelivered", "ignored"}
                 /\ pubsub'.msg[m].onMessage = "none"
                 /\ pubsub'.msg[m].ack = 0 /\ pubsub'.msg[m].nack = 0]_vars
  /\ [](PubSubCase =>
          \A m \in PubSubMsgs :
            pubsub.msg[m].st = "ignored"
              => /\ pubsub.msg[m].onMessage = "none"
                 /\ pubsub.msg[m].ack = 0 /\ pubsub.msg[m].nack = 0)

\* A message that passes the filter was delivered after close() and left alone, while
\* an earlier message is still being processed.
C37_Witness ==
  /\ PubSubCase /\ pubsub.closePc # "none"
  /\ \E m, k \in PubSubMsgs :
       /\ pubsub.msg[m].st = "ignored"
       /\ _isValidEvent(pubsub.msg[m].event_name, pubsub.filterEvents)
       /\ pubsub.msg[k].onMessage = "running"

\* C38: a message that passes the filter while the client is not shutting down is
\* passed to onMessage and gets exactly one of ack and nack once onMessage has settled,
\* ack exactly when onMessage resolved and nack exactly when it threw or rejected, and
\* neither before; a message excluded by filterEvents is not passed to onMessage and is
\* neither acked nor nacked.
C38_ExactlyOneAckOrNack ==
  /\ [][PubSubCase =>
          \A m \in PubSubMsgs :
            pubsub.msg[m].st = "undelivered" /\ pubsub'.msg[m].st # "undelivered"
              /\ ~pubsub.isShuttingDown
              => IF _isValidEvent(pubsub.msg[m].event_name, pubsub.filterEvents)
                 THEN pubsub'.msg[m].onMessage \in {"running", "rejected"}
                 ELSE pubsub'.msg[m].st = "filtered"]_vars
  /\ [](PubSubCase =>
          \A m \in PubSubMsgs :
            /\ pubsub.msg[m].ack + pubsub.msg[m].nack <= 1
            /\ pubsub.msg[m].ack = 1 <=> pubsub.msg[m].onMessage = "resolved"
            /\ pubsub.msg[m].nack = 1 <=> pubsub.msg[m].onMessage = "rejected"
            /\ pubsub.msg[m].st = "filtered"
                 => /\ pubsub.msg[m].onMessage = "none"
                    /\ pubsub.msg[m].ack = 0 /\ pubsub.msg[m].nack = 0)

\* One message was acked after onMessage resolved, another was nacked after onMessage
\* rejected.
C38_Witness ==
  /\ PubSubCase
  /\ \E m, k \in PubSubMsgs :
       /\ pubsub.msg[m].ack = 1 /\ pubsub.msg[m].onMessage = "resolved"
       /\ pubsub.msg[k].nack = 1 /\ pubsub.msg[k].onMessage = "rejected"

\* C39: the flag IGNORE_EVENTS does not influence validation in dispatch: two calls with
\* the same message on the same publisher throw the same error, or both return,
\* whatever the flag was at each call, and build the same request; the flag decides
\* only whether the transport is contacted for a message that passed validation.
C39_FlagDoesNotInfluenceValidation ==
  Publisher =>
    /\ \A i, j \in 1..Len(calls) :
         /\ calls[i].outcome.how = calls[j].outcome.how
         /\ calls[i].outcome.error = calls[j].outcome.error
         /\ calls[i].outcome.request = calls[j].outcome.request
    /\ \A i \in 1..Len(calls) :
         /\ calls[i].outcome.send
              <=> calls[i].outcome.how = "returned" /\ calls[i].IGNORE_EVENTS # "true"
         /\ calls[i].outcome.how = "thrown" <=> calls[i].outcome.error # NoError

\* The same invalid message was dispatched once with the flag set and once without it,
\* and both calls threw.
C39_Witness ==
  /\ Publisher /\ Len(calls) = 2
  /\ calls[1].IGNORE_EVENTS = "true" /\ calls[2].IGNORE_EVENTS # "true"
  /\ calls[1].outcome.how = "thrown" /\ calls[2].outcome.how = "thrown"

====
